---------------------------- MODULE Spec2Model ----------------------------
(***************************************************************************)
(* State-machine model of the WaMi gateway: the message ingestion          *)
(* pipeline (processMessages), the Message Store statements of database.js *)
(* (messages / chats / reactions tables), the reaction handler, the        *)
(* history backfill controller (fetchMoreMessages), the content-hash media *)
(* dedup path and the session teardown / reconciliation worker.            *)
(***************************************************************************)
EXTENDS Integers, Sequences, FiniteSets, TLC

VARIABLES
    messages,   \* table messages: a set of rows
    chats,      \* table chats: a set of rows
    reactions,  \* table reactions: a set of rows
    emitted,    \* notifications published by the handler that ran last
    ev,         \* the transport event (or request) queued for its handler
    last,       \* the handler that ran last and what it returned
    steps,      \* number of message batches handled so far
    ingested,   \* (session, message id, path) of every persistable message handed to the pipeline
    blobs,      \* Content Store: files on disk under MEDIA_DIR
    writes,     \* Content Store: the writeFile calls made so far, in order
    sessions,   \* in-memory session map: id -> session object
    credDirs,   \* Credential Store: session ids that have a directory under SESSIONS_DIR
    proc,       \* the process: up, inside a teardown, or down; and the teardown it was last in
    history,    \* Transport: per chat, the messages the provider holds, oldest first
    sync,       \* full history sync: per (session, chat), where its fetch loop stands
    pending,    \* event loop: the timers and promises that have not run yet
    socks,      \* Transport: per session id, the state of its socket
    outbox      \* outbound queues of the sessions, and what the transport was handed

storeVars == <<messages, chats, reactions>>
mediaVars == <<blobs, writes>>
sessVars  == <<sessions, credDirs, proc>>
xportVars == <<history, sync>>
loopVars == <<pending, socks, outbox>>
vars == <<messages, chats, reactions, emitted, ev, last, steps, ingested,
          blobs, writes, sessions, credDirs, proc, history, sync, pending, socks, outbox>>

-----------------------------------------------------------------------------
(* Bounds of the model *)

MaxTs == 2        \* provider timestamps (seconds) range over 1..MaxTs
MaxBatch == 2     \* longest batch / page the transport delivers
MaxEvents == 2    \* message batches handled in one behaviour

SessionIds == {"s1", "s2"}
MsgIds == {"A1", "A2"}
Jids == {"C1"}
PushNames == {"Ann"}

NULL == "NULL"          \* SQL NULL / JS null in a text column
NullTs == 0 - 1         \* SQL NULL in an integer column
NoMessage == {}         \* m.message absent

-----------------------------------------------------------------------------
(* whatsapp-service.js helpers *)

\* The order in which getType probes `${type}Message`.
TypePrecedence ==
    <<"reaction", "sticker", "image", "video", "audio", "document",
      "location", "contact", "extendedText", "conversation">>

MediaTypes == {"image", "video", "audio", "document", "sticker"}

\* getType: the first type of the precedence list the content carries, or NULL.
getType(message) ==
    LET hits == {i \in 1..Len(TypePrecedence) : TypePrecedence[i] \in message}
    IN  IF hits = {} THEN NULL
        ELSE TypePrecedence[CHOOSE i \in hits : \A k \in hits : i <= k]

\* Number(m.messageTimestamp) * 1000
ToMillis(sec) == sec * 1000

\* jid.split('@')[0]
UserPart(jid) == jid

-----------------------------------------------------------------------------
(* Transport messages (inputs) *)

\* The media part of a message: where the provider serves it, its declared type and
\* hash, and the bytes a download of it yields (NULL: the download fails).
NoMedia == [url |-> NULL, mimetype |-> NULL, fileSha256 |-> NULL, bytes |-> NULL]

\* The text a provider message carries; a message id names one provider message.
TextOf(id) == IF id = "A1" THEN "hi" ELSE "yo"

RawMessage(id, jid, fromMe, content, sec, pushName, media) ==
    [id |-> id, remoteJid |-> jid, fromMe |-> fromMe, message |-> content,
     text |-> IF "conversation" \in content THEN TextOf(id) ELSE "",
     messageTimestamp |-> sec, pushName |-> pushName, media |-> media]

\* Messages the pipeline skips: no content, or a reaction-kind message.
SkippedRaw ==
    {RawMessage(id, jid, FALSE, c, 1, NULL, NoMedia) :
        id \in MsgIds, jid \in Jids, c \in {NoMessage, {"reaction"}}}

\* Text messages, outgoing (no sender name) or incoming (sender name from names).
TextRaw(names) ==
    {RawMessage(id, jid, TRUE, {"conversation"}, sec, NULL, NoMedia) :
        id \in MsgIds, jid \in Jids, sec \in 1..MaxTs}
    \cup
    {RawMessage(x[1], x[2], FALSE, {"conversation"}, x[3], x[4], NoMedia) :
        x \in MsgIds \X Jids \X (1..MaxTs) \X names}

RawPool == SkippedRaw \cup TextRaw(PushNames)

\* Non-empty batches of at most MaxBatch messages drawn from a pool.
BatchesOf(pool) == UNION {[1..n -> pool] : n \in 1..MaxBatch}

\* The chat list of a messaging-history.set event.
HistoryChats ==
    {<<[id |-> j, name |-> n, unreadCount |-> u]>> : j \in Jids, n \in {NULL}, u \in {0, 1}}

\* What one messaging-history.set event carries: a chat list, or a batch of messages.
HistorySets ==
    {[chats |-> cl, msgs |-> <<>>] : cl \in HistoryChats}
    \cup {[chats |-> <<>>, msgs |-> b] : b \in BatchesOf(RawPool)}

NoEvent == [op |-> "none"]
NoOutbox == [queues |-> <<>>, sent |-> <<>>, replies |-> <<>>, next |-> 1]

\* The process is up and has not been inside any teardown.
ProcUp == [state |-> "up", sid |-> NULL, pc |-> "idle"]

-----------------------------------------------------------------------------
(* database.js statements *)

\* INSERT OR IGNORE INTO messages: message_id is UNIQUE over the whole table.
insertMessage(tbl, row) ==
    IF \E r \in tbl : r.message_id = row.message_id THEN tbl ELSE tbl \cup {row}

\* INSERT INTO chats ... ON CONFLICT(session_id, jid) DO UPDATE SET
\*   name = COALESCE(excluded.name, name), last_message = excluded.last_message,
\*   last_message_timestamp = excluded.last_message_timestamp,
\*   unread_count = unread_count + excluded.unread_count
upsertChat(tbl, p) ==
    LET old == {c \in tbl : c.session_id = p.session_id /\ c.jid = p.jid}
    IN  IF old = {}
        THEN tbl \cup {[session_id |-> p.session_id, jid |-> p.jid, name |-> p.name,
                        last_message |-> p.last_message,
                        last_message_timestamp |-> p.last_message_timestamp,
                        unread_count |-> p.increment_unread]}
        ELSE (tbl \ old) \cup
             {[c EXCEPT !.name = IF p.name /= NULL THEN p.name ELSE @,
                        !.last_message = p.last_message,
                        !.last_message_timestamp = p.last_message_timestamp,
                        !.unread_count = @ + p.increment_unread] : c \in old}

\* UPDATE chats SET unread_count = 0 WHERE session_id = @session_id AND jid = @jid
resetChatUnreadCount(tbl, s, j) ==
    {IF c.session_id = s /\ c.jid = j THEN [c EXCEPT !.unread_count = 0] ELSE c : c \in tbl}

-----------------------------------------------------------------------------
(* processMessages (whatsapp-service.js, LRU-cache version) *)

\* The loop's filter: `if (!m.message || !m.key) continue; if (type === 'reaction') continue;`
Persistable(m) == m.message /= NoMessage /\ getType(m.message) /= "reaction"

\* msgData of one raw message.
msgData(s, m) ==
    LET type == getType(m.message)
        isMedia == type \in MediaTypes
        url == IF isMedia THEN m.media.url ELSE NULL
    IN  [message_id |-> m.id, session_id |-> s, jid |-> m.remoteJid,
         text |-> m.text, type |-> type,
         isOutgoing |-> IF m.fromMe THEN 1 ELSE 0,
         status |-> IF m.fromMe THEN "read" ELSE "received",
         timestamp |-> ToMillis(m.messageTimestamp),
         sender_name |-> m.pushName,
         media_url |-> url,
         mimetype |-> IF isMedia /\ url /= NULL THEN m.media.mimetype ELSE NULL,
         media_sha256 |-> IF isMedia /\ url /= NULL THEN m.media.fileSha256 ELSE NULL]

\* messageInserts: msgData of every message the loop does not skip, in batch order.
RECURSIVE messageInserts(_, _)
messageInserts(s, msgs) ==
    IF msgs = <<>> THEN <<>>
    ELSE IF Persistable(Head(msgs))
         THEN <<msgData(s, Head(msgs))>> \o messageInserts(s, Tail(msgs))
         ELSE messageInserts(s, Tail(msgs))

\* chatUpsertParams: the per-chat Map built while looping over a live batch.
RECURSIVE chatUpsertParams(_, _)
chatUpsertParams(inserts, acc) ==
    IF inserts = <<>> THEN acc
    ELSE LET d == Head(inserts)
             current == IF d.jid \in DOMAIN acc THEN acc[d.jid]
                        ELSE [last_message_timestamp |-> 0, increment_unread |-> 0]
             unreadIncrement == current.increment_unread + (IF d.isOutgoing = 1 THEN 0 ELSE 1)
             name == IF d.sender_name /= NULL THEN d.sender_name ELSE UserPart(d.jid)
             entry == IF d.timestamp >= current.last_message_timestamp
                      THEN [session_id |-> d.session_id, jid |-> d.jid, name |-> name,
                            last_message |-> IF d.text /= "" THEN d.text ELSE d.type,
                            last_message_timestamp |-> d.timestamp,
                            increment_unread |-> unreadIncrement]
                      ELSE [current EXCEPT !.increment_unread = unreadIncrement]
         IN  chatUpsertParams(Tail(inserts), (d.jid :> entry) @@ acc)

RECURSIVE insertAll(_, _)
insertAll(tbl, inserts) ==
    IF inserts = <<>> THEN tbl
    ELSE insertAll(insertMessage(tbl, Head(inserts)), Tail(inserts))

RECURSIVE upsertAll(_, _)
upsertAll(tbl, params) ==
    IF params = <<>> THEN tbl
    ELSE upsertAll(upsertChat(tbl, Head(params)), Tail(params))

\* The values of a Map as a sequence (each chat has one entry: the order is immaterial).
RECURSIVE MapValues(_)
MapValues(f) ==
    IF DOMAIN f = {} THEN <<>>
    ELSE LET k == CHOOSE k \in DOMAIN f : TRUE
         IN  <<f[k]>> \o MapValues([j \in DOMAIN f \ {k} |-> f[j]])

\* The 'whatsapp-message' notification of a live batch: one payload per insert.
messagePayload(s, inserts) ==
    [event |-> "whatsapp-message", to |-> s,
     ids |-> [i \in 1..Len(inserts) |-> inserts[i].message_id]]

\* The Message Store and notifications after processMessages(session, msgs, isHistorical).
processMessages(s, msgs, isHistorical, msgTbl, chatTbl) ==
    LET inserts == messageInserts(s, msgs)
        params == IF isHistorical THEN <<>>
                  ELSE MapValues(chatUpsertParams(inserts, <<>>))
    IN  IF inserts = <<>>
        THEN [messages |-> msgTbl, chats |-> chatTbl, emitted |-> <<>>, ret |-> Len(msgs)]
        ELSE [messages |-> insertAll(msgTbl, inserts),
              chats |-> upsertAll(chatTbl, params),
              emitted |-> IF isHistorical THEN <<>> ELSE <<messagePayload(s, inserts)>>,
              ret |-> Len(msgs)]

\* Bookkeeping: which (session, message id) pairs were handed to the pipeline, and how.
Handed(s, msgs, path) ==
    {<<s, msgs[i].id, path>> : i \in {k \in 1..Len(msgs) : Persistable(msgs[k])}}

-----------------------------------------------------------------------------
(* Initial state *)

Init ==
    /\ messages = {}
    /\ chats = {}
    /\ reactions = {}
    /\ emitted = <<>>
    /\ ev = NoEvent
    /\ last = [op |-> "init"]
    /\ steps = 0
    /\ ingested = {}
    /\ blobs = {}
    /\ writes = <<>>
    /\ sessions = <<>>
    /\ credDirs = {}
    /\ proc = ProcUp
    /\ history = <<>>
    /\ sync = <<>>
    /\ pending = {}
    /\ socks = <<>>
    /\ outbox = NoOutbox

\* The event loop is free and the run may go on.
Idle == ev = NoEvent /\ steps < MaxEvents

-----------------------------------------------------------------------------
(* Ingestion: transport events and their handlers *)

\* The transport emits 'messages.upsert' for session s.
EmitMessagesUpsert(s, msgs) ==
    /\ ev' = [op |-> "messages.upsert", sid |-> s, msgs |-> msgs]
    /\ UNCHANGED <<loopVars, storeVars, emitted, last, steps, ingested, mediaVars, sessVars, xportVars>>

\* sock.ev.on('messages.upsert', ({ messages }) => processMessages(session, messages, false))
OnMessagesUpsert ==
    /\ ev.op = "messages.upsert"
    /\ LET r == processMessages(ev.sid, ev.msgs, FALSE, messages, chats)
       IN  /\ messages' = r.messages
           /\ chats' = r.chats
           /\ emitted' = r.emitted
           /\ last' = [op |-> "messages.upsert", sid |-> ev.sid, ret |-> r.ret]
    /\ ingested' = ingested \cup Handed(ev.sid, ev.msgs, "live")
    /\ ev' = NoEvent
    /\ steps' = steps + 1
    /\ UNCHANGED <<loopVars, reactions, mediaVars, sessVars, xportVars>>

\* The transport emits 'messaging-history.set' for session s.
EmitHistorySet(s, chatList, msgs) ==
    /\ ev' = [op |-> "messaging-history.set", sid |-> s, chats |-> chatList, msgs |-> msgs]
    /\ UNCHANGED <<loopVars, storeVars, emitted, last, steps, ingested, mediaVars, sessVars, xportVars>>

\* The chat rows the history-set handler upserts, one per chat of the event.
historyChatParams(s, chatList) ==
    [i \in 1..Len(chatList) |->
        [session_id |-> s, jid |-> chatList[i].id, name |-> chatList[i].name,
         last_message |-> NULL, last_message_timestamp |-> NullTs,
         increment_unread |-> chatList[i].unreadCount]]

\* sock.ev.on('messaging-history.set', ...): upsert the chats, then
\* processMessages(session, messages, true).
OnMessagingHistorySet ==
    /\ ev.op = "messaging-history.set"
    /\ LET chats1 == upsertAll(chats, historyChatParams(ev.sid, ev.chats))
           r == processMessages(ev.sid, ev.msgs, TRUE, messages, chats1)
       IN  /\ messages' = r.messages
           /\ chats' = r.chats
           /\ emitted' = r.emitted
           /\ last' = [op |-> "messaging-history.set", sid |-> ev.sid, ret |-> r.ret]
    /\ ingested' = ingested \cup Handed(ev.sid, ev.msgs, "hist")
    /\ ev' = NoEvent
    /\ steps' = steps + 1
    /\ UNCHANGED <<loopVars, reactions, mediaVars, sessVars, xportVars>>

NextIngest ==
    \/ Idle /\ \E s \in SessionIds, msgs \in BatchesOf(RawPool) : EmitMessagesUpsert(s, msgs)
    \/ Idle /\ \E s \in SessionIds, h \in HistorySets : EmitHistorySet(s, h.chats, h.msgs)
    \/ OnMessagesUpsert
    \/ OnMessagingHistorySet

SpecIngest == Init /\ [][NextIngest]_vars

-----------------------------------------------------------------------------
(* Claims about the ingestion pipeline *)

RowsOf(tbl, s, id) == {r \in tbl : r.session_id = s /\ r.message_id = id}

ChatRow(tbl, s, j) == {c \in tbl : c.session_id = s /\ c.jid = j}

\* C1: once a persistable message (session, id) has been handed to the pipeline, live
\* or historical, the Message Store holds exactly one row for that pair, and no
\* later delivery adds a row for the pair or changes a stored row.
C1_IdempotentInsert ==
    /\ [](\A x \in ingested : Cardinality(RowsOf(messages, x[1], x[2])) = 1)
    /\ [][\A r \in messages : r \in messages']_vars

\* The unread counter of chat (s, j); 0 when the chat has no row.
Unread(tbl, s, j) ==
    IF ChatRow(tbl, s, j) = {} THEN 0
    ELSE (CHOOSE c \in ChatRow(tbl, s, j) : TRUE).unread_count

\* The handler of the queued event op runs in this step.
Handles(op) == ev.op = op /\ ev' = NoEvent

\* Indices of the messages of a batch that are persisted for chat j.
PersistedFor(msgs, j) ==
    {i \in 1..Len(msgs) : Persistable(msgs[i]) /\ msgs[i].remoteJid = j}

Incoming(msgs, j) == {i \in PersistedFor(msgs, j) : ~msgs[i].fromMe}

\* The queued live batch carries an incoming message and only messages this session
\* has already ingested live and stored, unchanged.
IsLiveRedelivery ==
    /\ \E i \in 1..Len(ev.msgs) : Persistable(ev.msgs[i]) /\ ~ev.msgs[i].fromMe
    /\ \A i \in 1..Len(ev.msgs) :
          Persistable(ev.msgs[i]) =>
             /\ <<ev.sid, ev.msgs[i].id, "live">> \in ingested
             /\ msgData(ev.sid, ev.msgs[i]) \in messages

\* C2: ingesting the same incoming message a second time through the live path leaves
\* the chat's unread counter at its value after the first ingest.
C2_NoDoubleUnread ==
    [][(Handles("messages.upsert") /\ IsLiveRedelivery)
          => \A j \in Jids : Unread(chats', ev.sid, j) = Unread(chats, ev.sid, j)]_vars

\* The queued live batch has persisted messages for chat j, all of them older than the
\* last-message timestamp the chat has stored.
IsOlderBatch(j) ==
    /\ PersistedFor(ev.msgs, j) /= {}
    /\ \E c \in ChatRow(chats, ev.sid, j) :
          /\ c.last_message_timestamp /= NullTs
          /\ \A i \in PersistedFor(ev.msgs, j) :
                ToMillis(ev.msgs[i].messageTimestamp) < c.last_message_timestamp

\* C3: a live batch whose messages are all older than the chat's stored last-message
\* timestamp leaves last_message and last_message_timestamp unchanged and adds the
\* batch's incoming messages to the unread counter.
C3_NoRegress ==
    [][\A j \in Jids :
          (Handles("messages.upsert") /\ IsOlderBatch(j)) =>
             \E c \in ChatRow(chats, ev.sid, j), d \in ChatRow(chats', ev.sid, j) :
                /\ d.last_message = c.last_message
                /\ d.last_message_timestamp = c.last_message_timestamp
                /\ d.unread_count = c.unread_count + Cardinality(Incoming(ev.msgs, j))]_vars

\* The example batch: one incoming text message {id A1, chat C1, text "hi", ts 1000}.
ExampleBatch == <<RawMessage("A1", "C1", FALSE, {"conversation"}, 1, "Ann", NoMedia)>>

\* Session s has no Message row and no Chat row.
NoStoredRows(s) ==
    /\ {r \in messages : r.session_id = s} = {}
    /\ {c \in chats : c.session_id = s} = {}

\* C4: the example batch, ingested live on a session with no stored rows, yields one
\* Message row (id A1) of that session, one Chat row for C1 with unread = 1,
\* last_message = "hi" and last_message_timestamp = 1000, and one notification.
C4_Example ==
    [][(Handles("messages.upsert") /\ ev.msgs = ExampleBatch /\ NoStoredRows(ev.sid)) =>
          /\ Cardinality({r \in messages' : r.session_id = ev.sid}) = 1
          /\ Cardinality(RowsOf(messages', ev.sid, "A1")) = 1
          /\ {c \in chats' : c.session_id = ev.sid} =
                {[session_id |-> ev.sid, jid |-> "C1", name |-> "Ann",
                  last_message |-> "hi", last_message_timestamp |-> 1000,
                  unread_count |-> 1]}
          /\ Len(emitted') = 1]_vars

-----------------------------------------------------------------------------
(* processMessages (whatsapp-service.js, content-hash version): media dedup *)

Mimetypes == {"image/jpeg"}
Bytes == {"B1", "B2"}

\* crypto.createHash('sha256').update(buffer).digest('hex'): injective on the model's bytes.
Sha256(buffer) == IF buffer = "B1" THEN "sha(B1)" ELSE "sha(B2)"

\* mimetype?.split('/')[1]?.split(';')[0] || 'bin'
Ext(mimetype) == IF mimetype = "image/jpeg" THEN "jpeg" ELSE "bin"

\* SELECT media_url, mimetype FROM messages
\*   WHERE media_sha256 = @media_sha256 AND media_url IS NOT NULL LIMIT 1
findMessageBySha256(tbl, sha) ==
    {r \in tbl : r.media_sha256 = sha /\ r.media_url /= NULL}

\* path.join(MEDIA_DIR, session.id, `${media_sha256}.${ext}`)
MediaFile(s, sha, ext) == [dir |-> s, sha |-> sha, ext |-> ext]

\* `/media/${media_sha256}.${ext}`
MediaUrl(sha, ext) ==
    IF sha = "sha(B1)"
    THEN (IF ext = "jpeg" THEN "/media/sha(B1).jpeg" ELSE "/media/sha(B1).bin")
    ELSE (IF ext = "jpeg" THEN "/media/sha(B2).jpeg" ELSE "/media/sha(B2).bin")

\* One pass of the loop body for message m: the row pushed to `data` and the files
\* written. The lookup reads the messages table as it is while the loop runs.
mediaData(s, m, isHistorical, msgTbl) ==
    LET type == getType(m.message)
        wantsMedia == ~isHistorical /\ type \in MediaTypes
        buffer == IF wantsMedia THEN m.media.bytes ELSE NULL
        sha == IF buffer /= NULL THEN Sha256(buffer) ELSE NULL
        existing == IF sha /= NULL THEN findMessageBySha256(msgTbl, sha) ELSE {}
        hit == CHOOSE r \in existing : TRUE
        ext == Ext(m.media.mimetype)
        row == [message_id |-> m.id, session_id |-> s, jid |-> m.remoteJid,
                text |-> m.text, type |-> type,
                isOutgoing |-> IF m.fromMe THEN 1 ELSE 0,
                status |-> IF m.fromMe THEN "read" ELSE "received",
                timestamp |-> ToMillis(m.messageTimestamp),
                sender_name |-> m.pushName,
                media_url |-> IF sha = NULL THEN NULL
                              ELSE IF existing /= {} THEN hit.media_url
                              ELSE MediaUrl(sha, ext),
                mimetype |-> IF ~wantsMedia THEN NULL
                             ELSE IF existing /= {} THEN hit.mimetype
                             ELSE m.media.mimetype,
                media_sha256 |-> sha]
    IN  [row |-> row,
         written |-> IF sha /= NULL /\ existing = {}
                     THEN <<MediaFile(s, sha, ext)>> ELSE <<>>]

\* The loop over the batch: `data` and the writeFile calls, in batch order.
RECURSIVE mediaLoop(_, _, _, _)
mediaLoop(s, msgs, isHistorical, msgTbl) ==
    IF msgs = <<>> THEN [data |-> <<>>, written |-> <<>>]
    ELSE LET rest == mediaLoop(s, Tail(msgs), isHistorical, msgTbl)
         IN  IF ~Persistable(Head(msgs)) THEN rest
             ELSE LET d == mediaData(s, Head(msgs), isHistorical, msgTbl)
                  IN  [data |-> <<d.row>> \o rest.data,
                       written |-> d.written \o rest.written]

\* upsertChat.run({...}) for one row of `data` (live batches only).
chatParamsOf(d) ==
    [session_id |-> d.session_id, jid |-> d.jid,
     name |-> IF d.sender_name /= NULL THEN d.sender_name ELSE UserPart(d.jid),
     last_message |-> IF d.text /= "" THEN d.text ELSE d.type,
     last_message_timestamp |-> d.timestamp,
     increment_unread |-> IF d.isOutgoing = 1 THEN 0 ELSE 1]

\* The store, the Content Store and the notifications after the content-hash
\* version of processMessages(session, msgs, isHistorical).
processMediaMessages(s, msgs, isHistorical, msgTbl, chatTbl) ==
    LET l == mediaLoop(s, msgs, isHistorical, msgTbl)
        params == IF isHistorical THEN <<>>
                  ELSE [i \in 1..Len(l.data) |-> chatParamsOf(l.data[i])]
    IN  [messages |-> insertAll(msgTbl, l.data),
         chats |-> upsertAll(chatTbl, params),
         written |-> l.written,
         emitted |-> IF isHistorical \/ l.data = <<>> THEN <<>>
                     ELSE <<messagePayload(s, l.data)>>,
         ret |-> Len(msgs)]

\* What the provider says of a media part with bytes b; ok: the download succeeds.
MediaOf(b, ok) ==
    [url |-> "mmg", mimetype |-> "image/jpeg", fileSha256 |-> Sha256(b),
     bytes |-> IF ok THEN b ELSE NULL]

\* Incoming image messages.
MediaPool ==
    {RawMessage(x[1], x[2], FALSE, {"image"}, 1, "Ann", MediaOf(x[3], x[4])) :
        x \in MsgIds \X Jids \X Bytes \X BOOLEAN}

Range(seq) == {seq[i] : i \in DOMAIN seq}

\* The 'messages.upsert' handler of the content-hash version.
OnMediaUpsert ==
    /\ ev.op = "messages.upsert"
    /\ LET r == processMediaMessages(ev.sid, ev.msgs, FALSE, messages, chats)
       IN  /\ messages' = r.messages
           /\ chats' = r.chats
           /\ emitted' = r.emitted
           /\ writes' = writes \o r.written
           /\ blobs' = blobs \cup Range(r.written)
           /\ last' = [op |-> "messages.upsert", sid |-> ev.sid, ret |-> r.ret]
    /\ ingested' = ingested \cup Handed(ev.sid, ev.msgs, "live")
    /\ ev' = NoEvent
    /\ steps' = steps + 1
    /\ UNCHANGED <<loopVars, reactions, sessVars, xportVars>>

\* The 'messaging-history.set' handler of the content-hash version (the backfill
\* loop it starts afterwards is modelled with fetchMoreMessages).
OnMediaHistorySet ==
    /\ ev.op = "messaging-history.set"
    /\ LET chats1 == upsertAll(chats, historyChatParams(ev.sid, ev.chats))
           r == processMediaMessages(ev.sid, ev.msgs, TRUE, messages, chats1)
       IN  /\ messages' = r.messages
           /\ chats' = r.chats
           /\ emitted' = r.emitted
           /\ writes' = writes \o r.written
           /\ blobs' = blobs \cup Range(r.written)
           /\ last' = [op |-> "messaging-history.set", sid |-> ev.sid, ret |-> r.ret]
    /\ ingested' = ingested \cup Handed(ev.sid, ev.msgs, "hist")
    /\ ev' = NoEvent
    /\ steps' = steps + 1
    /\ UNCHANGED <<loopVars, reactions, sessVars, xportVars>>

NextMedia ==
    \/ Idle /\ \E s \in SessionIds, msgs \in BatchesOf(MediaPool) : EmitMessagesUpsert(s, msgs)
    \/ Idle /\ \E s \in SessionIds, msgs \in BatchesOf(MediaPool) : EmitHistorySet(s, <<>>, msgs)
    \/ OnMediaUpsert
    \/ OnMediaHistorySet

SpecMedia == Init /\ [][NextMedia]_vars

\* The writeFile calls that wrote bytes of hash sha.
WritesOf(sha) == {i \in DOMAIN writes : writes[i].sha = sha}

\* C5: any two Message rows of one session whose media bytes are identical (equal
\* content hash) carry the same media reference, and those bytes were written to
\* the Content Store exactly once.
C5_MediaDedup ==
    \A r1 \in messages, r2 \in messages :
        (/\ r1 /= r2
         /\ r1.session_id = r2.session_id
         /\ r1.media_sha256 /= NULL
         /\ r1.media_sha256 = r2.media_sha256)
        => /\ r1.media_url = r2.media_url
           /\ Cardinality(WritesOf(r1.media_sha256)) = 1

-----------------------------------------------------------------------------
(* Reactions: database.js statements and the 'messages.reaction' handler *)

Reactors == {"r1", "r2"}
Emojis == {"+1", "<3"}

\* A faulty DELETE that removes nothing.
deleteReactionLeavesRow(tbl, p) == tbl

\* INSERT OR REPLACE INTO reactions (message_id, sender_jid, emoji);
\* PRIMARY KEY (message_id, sender_jid).
upsertReaction(tbl, p) ==
    {r \in tbl : ~(r.message_id = p.message_id /\ r.sender_jid = p.sender_jid)}
    \cup {[message_id |-> p.message_id, sender_jid |-> p.sender_jid, emoji |-> p.emoji]}

\* DELETE FROM reactions WHERE message_id = @message_id AND sender_jid = @sender_jid
deleteReaction(tbl, p) ==
    {r \in tbl : ~(r.message_id = p.message_id /\ r.sender_jid = p.sender_jid)}

\* json_group_object(emoji, count) of SELECT emoji, COUNT(*) ... GROUP BY emoji.
reactionCounts(tbl, id) ==
    LET rows == {r \in tbl : r.message_id = id}
    IN  [e \in {r.emoji : r \in rows} |-> Cardinality({r \in rows : r.emoji = e})]

\* getSingleMessage: one result per messages row with that message_id.
getSingleMessage(msgTbl, reactTbl, id) ==
    {[id |-> m.message_id, reactions |-> reactionCounts(reactTbl, id)] :
        m \in {x \in msgTbl : x.message_id = id}}

\* The transaction of the handler: upsert or delete, event by event.
RECURSIVE applyReactions(_, _)
applyReactions(tbl, evs) ==
    IF evs = <<>> THEN tbl
    ELSE LET e == Head(evs)
             p == [message_id |-> e.id, sender_jid |-> e.senderJid, emoji |-> e.text]
             next == IF e.senderJid = NULL THEN tbl
                     ELSE IF e.text /= "" THEN upsertReaction(tbl, p)
                     ELSE deleteReaction(tbl, p)
         IN  applyReactions(next, Tail(evs))

\* A faulty `updates` that keeps one entry per event instead of one per message id.
RECURSIVE reactionUpdatesPerEvent(_, _)
reactionUpdatesPerEvent(evs, seen) ==
    IF evs = <<>> THEN <<>>
    ELSE LET e == Head(evs)
         IN  IF e.senderJid = NULL
             THEN reactionUpdatesPerEvent(Tail(evs), seen)
             ELSE <<[id |-> e.id, jid |-> e.remoteJid]>>
                  \o reactionUpdatesPerEvent(Tail(evs), seen)

\* The `updates` Map: message id -> chat of its first event, in insertion order.
RECURSIVE reactionUpdates(_, _)
reactionUpdates(evs, seen) ==
    IF evs = <<>> THEN <<>>
    ELSE LET e == Head(evs)
         IN  IF e.senderJid = NULL \/ e.id \in seen
             THEN reactionUpdates(Tail(evs), seen)
             ELSE <<[id |-> e.id, jid |-> e.remoteJid]>>
                  \o reactionUpdates(Tail(evs), seen \cup {e.id})

\* One 'whatsapp-reaction-update' per updated message id that getSingleMessage finds.
RECURSIVE reactionPayloads(_, _, _, _)
reactionPayloads(s, updates, msgTbl, reactTbl) ==
    IF updates = <<>> THEN <<>>
    ELSE LET u == Head(updates)
             found == getSingleMessage(msgTbl, reactTbl, u.id)
             rest == reactionPayloads(s, Tail(updates), msgTbl, reactTbl)
         IN  IF found = {} THEN rest
             ELSE <<[event |-> "whatsapp-reaction-update", to |-> s, id |-> u.id,
                     jid |-> u.jid, reactions |-> (CHOOSE m \in found : TRUE).reactions]>>
                  \o rest

\* Reaction events: emoji "" removes; an event may lack its sender.
ReactionEvents ==
    {[id |-> x[1], remoteJid |-> x[2], senderJid |-> x[3], text |-> x[4]] :
        x \in MsgIds \X Jids \X Reactors \X (Emojis \cup {""})}
    \cup {[id |-> "A1", remoteJid |-> "C1", senderJid |-> NULL, text |-> "+1"]}

\* A 'messages.reaction' event carries one reaction, or two.
ReactionBatches ==
    {<<e>> : e \in ReactionEvents} \cup {<<d, e>> : d \in ReactionEvents, e \in ReactionEvents}

\* The transport emits 'messages.reaction' for session s.
EmitMessagesReaction(s, evs) ==
    /\ ev' = [op |-> "messages.reaction", sid |-> s, reactions |-> evs]
    /\ UNCHANGED <<loopVars, storeVars, emitted, last, steps, ingested, mediaVars, sessVars, xportVars>>

\* The (message id, reactor) pairs that have a reaction row.
ReactedPairs(tbl) == {<<r.message_id, r.sender_jid>> : r \in tbl}

\* sock.ev.on('messages.reaction', reactions => ...)
OnMessagesReaction ==
    /\ ev.op = "messages.reaction"
    /\ reactions' = applyReactions(reactions, ev.reactions)
    /\ emitted' = reactionPayloads(ev.sid, reactionUpdates(ev.reactions, {}),
                                   messages, reactions')
    /\ last' = [op |-> "messages.reaction", sid |-> ev.sid,
                deleted |-> ReactedPairs(reactions) \ ReactedPairs(reactions')]
    /\ ev' = NoEvent
    /\ UNCHANGED <<loopVars, messages, chats, steps, ingested, mediaVars, sessVars, xportVars>>

\* The message the reaction runs react to.
ReactedMessage == RawMessage("A1", "C1", FALSE, {"conversation"}, 1, "Ann", NoMedia)

NextReact ==
    \/ Idle /\ EmitMessagesUpsert("s1", <<ReactedMessage>>)
    \/ OnMessagesUpsert
    \/ ev = NoEvent /\ \E s \in SessionIds, evs \in ReactionBatches :
                          EmitMessagesReaction(s, evs)
    \/ OnMessagesReaction

SpecReact == Init /\ [][NextReact]_vars

-----------------------------------------------------------------------------
(* Claims about reactions *)

ReactionRows(tbl, m, r) == {x \in tbl : x.message_id = m /\ x.sender_jid = r}

\* The events of a batch that are about the pair (m, r).
EventsFor(evs, m, r) == {i \in 1..Len(evs) : evs[i].id = m /\ evs[i].senderJid = r}

\* The emoji the pair (m, r) is left with when the batch evs is applied to tbl: that of
\* its last event in the batch, or that of the row it had; "" when it has none.
FinalEmoji(tbl, evs, m, r) ==
    LET idx == EventsFor(evs, m, r)
    IN  IF idx /= {} THEN evs[CHOOSE i \in idx : \A k \in idx : k <= i].text
        ELSE IF ReactionRows(tbl, m, r) /= {}
             THEN (CHOOSE x \in ReactionRows(tbl, m, r) : TRUE).emoji
             ELSE ""

\* The count the aggregated map gives for emoji e; 0 when e is not a key.
CountIn(counts, e) == IF e \in DOMAIN counts THEN counts[e] ELSE 0

\* C6: there is never more than one reaction row per (message id, reactor); when
\* the reaction handler runs, a pair whose last event carries an empty emoji is left
\* with zero rows, and the aggregated per-emoji count of every message counts exactly
\* the reactors whose latest reaction is that emoji, so a removed one is not counted.
C6_ReactionToggle ==
    /\ [](\A x \in reactions, y \in reactions :
             (x.message_id = y.message_id /\ x.sender_jid = y.sender_jid) => x = y)
    /\ [][Handles("messages.reaction") =>
            \A m \in MsgIds :
               /\ \A r \in Reactors :
                     FinalEmoji(reactions, ev.reactions, m, r) = ""
                        => ReactionRows(reactions', m, r) = {}
               /\ \A e \in Emojis :
                     CountIn(reactionCounts(reactions', m), e) =
                        Cardinality({r \in Reactors :
                                        FinalEmoji(reactions, ev.reactions, m, r) = e})
               /\ \A i \in DOMAIN emitted' :
                     emitted'[i].id = m
                        => emitted'[i].reactions = reactionCounts(reactions', m)]_vars

\* C6 witness: the handler has deleted the reaction row of a pair of a stored message
\* while another reactor's row stays, and has published the message's new counts.
C6_Witness ==
    /\ last.op = "messages.reaction"
    /\ \E p \in last.deleted :
          /\ ReactionRows(reactions, p[1], p[2]) = {}
          /\ \E x \in reactions : x.message_id = p[1]
          /\ \E i \in DOMAIN emitted :
                emitted[i].id = p[1] /\ emitted[i].reactions = reactionCounts(reactions, p[1])

-----------------------------------------------------------------------------
(* History backfill: fetchMoreMessages and the per-chat loop of runFullHistorySync *)

MaxHistory == 3   \* most messages the provider holds for a chat
PageSize == 2     \* messages per page (50 in the code)

HistoryIds == <<"H1", "H2", "H3", "H4">>

\* The i-th message of a chat's history; the provider's timestamps grow with i.
HistoryMessage(j, i, content) ==
    RawMessage(HistoryIds[i], j, FALSE, content, i, "Ann", NoMedia)

\* The histories the provider may hold for a chat: text messages and messages
\* without content, oldest first.
ProviderHistories ==
    UNION {{[i \in 1..n |-> HistoryMessage(j, i, c[i])] :
               c \in [1..n -> {{"conversation"}, NoMessage}], j \in Jids} :
           n \in 1..MaxHistory}

InitBackfill ==
    /\ messages = {}
    /\ chats = {}
    /\ reactions = {}
    /\ emitted = <<>>
    /\ ev = NoEvent
    /\ last = [op |-> "init"]
    /\ steps = 0
    /\ ingested = {}
    /\ blobs = {}
    /\ writes = <<>>
    /\ sessions = <<>>
    /\ credDirs = {}
    /\ proc = ProcUp
    /\ history \in [Jids -> ProviderHistories]
    /\ sync = <<>>
    /\ pending = {}
    /\ socks = <<>>
    /\ outbox = NoOutbox

\* A faulty statement without the session_id condition.
getOldestOfAnySession(tbl, s, j) ==
    LET rows == {r \in tbl : r.jid = j}
    IN  {r \in rows : \A q \in rows : r.timestamp <= q.timestamp}

\* SELECT ... FROM messages WHERE session_id = @session_id AND jid = @jid
\*   ORDER BY timestamp ASC LIMIT 1: the rows the statement may return.
getOldestMessageDetails(tbl, s, j) ==
    LET rows == {r \in tbl : r.session_id = s /\ r.jid = j}
    IN  {r \in rows : \A q \in rows : r.timestamp <= q.timestamp}

\* SELECT ... FROM chats WHERE session_id = @session_id: the chats of the session.
getChats(tbl, s) == {c.jid : c \in {x \in tbl : x.session_id = s}}

\* sock.fetchMessageHistory(jid, 50, key): the page of at most PageSize messages the
\* provider holds just before the message the key names; empty when it holds none.
fetchMessageHistory(h, key) ==
    LET at == {i \in 1..Len(h) : h[i].id = key.id}
        pos == CHOOSE i \in at : TRUE
        from == IF pos - PageSize < 1 THEN 1 ELSE pos - PageSize
    IN  IF at = {} THEN <<>> ELSE SubSeq(h, from, pos - 1)

\* The suffixes of a history (its newest messages) an initial sync may deliver.
NewestOf(h) == {SubSeq(h, Len(h) - n + 1, Len(h)) : n \in 1..(IF Len(h) < MaxBatch THEN Len(h) ELSE MaxBatch)}

\* No request is in flight.
NoKey == [remoteJid |-> NULL, id |-> NULL, fromMe |-> FALSE, timestamp |-> NullTs]

Running(k) == k \in DOMAIN sync /\ sync[k].state /= "done"

\* runFullHistorySync(session), started by the 'messaging-history.set' handler: one
\* fetch loop per chat of the session.
runFullHistorySync(s) ==
    /\ ev = NoEvent
    /\ last.op = "messaging-history.set" /\ last.sid = s
    /\ getChats(chats, s) /= {}
    /\ \A j \in Jids : ~Running(<<s, j>>)
    /\ sync' = [k \in {<<s, j>> : j \in getChats(chats, s)} |->
                   [state |-> "running", key |-> NoKey, page |-> <<>>]] @@ sync
    /\ last' = [op |-> "runFullHistorySync", sid |-> s]
    /\ UNCHANGED <<loopVars, storeVars, emitted, ev, steps, ingested, mediaVars, sessVars, history>>

\* fetchMoreMessages up to its await: read the cursor and ask the transport for the
\* page before it; without a stored message it returns 0 and the loop ends.
FetchRequest(s, j) ==
    /\ <<s, j>> \in DOMAIN sync
    /\ sync[<<s, j>>].state = "running"
    /\ LET oldest == getOldestMessageDetails(messages, s, j)
       IN  IF oldest = {}
           THEN /\ sync' = [sync EXCEPT ![<<s, j>>].state = "done"]
                /\ last' = [op |-> "fetchMoreMessages", sid |-> s, jid |-> j, ret |-> 0]
           ELSE \E o \in oldest :
                  LET key == [remoteJid |-> j, id |-> o.message_id,
                              fromMe |-> (o.isOutgoing = 1), timestamp |-> o.timestamp]
                  IN  /\ sync' = [sync EXCEPT ![<<s, j>>] =
                                     [state |-> "awaiting", key |-> key,
                                      page |-> fetchMessageHistory(history[j], key)]]
                      /\ UNCHANGED last
    /\ UNCHANGED <<loopVars, storeVars, emitted, ev, steps, ingested, mediaVars, sessVars, history>>

\* fetchMoreMessages after its await: ingest the page as historical and return its
\* length; the loop goes on while the call returns more than 0.
FetchResponse(s, j) ==
    /\ <<s, j>> \in DOMAIN sync
    /\ sync[<<s, j>>].state = "awaiting"
    /\ LET page == sync[<<s, j>>].page
           r == IF page /= <<>> THEN processMessages(s, page, TRUE, messages, chats)
                ELSE [messages |-> messages, chats |-> chats, emitted |-> emitted, ret |-> 0]
       IN  /\ messages' = r.messages
           /\ chats' = r.chats
           /\ emitted' = r.emitted
           /\ ingested' = ingested \cup Handed(s, page, "hist")
           /\ last' = [op |-> "fetchMoreMessages", sid |-> s, jid |-> j, ret |-> Len(page)]
           /\ sync' = [sync EXCEPT ![<<s, j>>] =
                          [state |-> IF Len(page) > 0 THEN "running" ELSE "done",
                           key |-> NoKey, page |-> <<>>]]
    /\ UNCHANGED <<loopVars, reactions, ev, steps, mediaVars, sessVars, history>>

FetchStep == \E s \in SessionIds, j \in Jids : FetchRequest(s, j) \/ FetchResponse(s, j)

NextBackfill ==
    \/ Idle /\ \E s \in SessionIds, j \in Jids : \E msgs \in NewestOf(history[j]) :
                  EmitHistorySet(s, <<[id |-> j, name |-> NULL, unreadCount |-> 0]>>, msgs)
    \/ OnMessagingHistorySet
    \/ \E s \in SessionIds : runFullHistorySync(s)
    \/ \E s \in SessionIds, j \in Jids : FetchRequest(s, j)
    \/ \E s \in SessionIds, j \in Jids : FetchResponse(s, j)

\* The event loop resumes every fetch it awaits and the transport answers every request.
SpecBackfill == InitBackfill /\ [][NextBackfill]_vars /\ WF_vars(FetchStep)

-----------------------------------------------------------------------------
(* Claims about the backfill *)

SyncKeys == SessionIds \X Jids

\* C7: the chat's history is finite, so every fetch loop of the full history sync that
\* has started eventually ends: fetchMoreMessages eventually returns 0.
C7_BackfillTerminates ==
    \A k \in SyncKeys : [](Running(k) => <>(k \in DOMAIN sync /\ sync[k].state = "done"))

\* The fetch of loop k gets its answer in this step, a non-empty page.
AnswersPage(k) ==
    /\ k \in DOMAIN sync
    /\ sync[k].state = "awaiting"
    /\ sync[k].page /= <<>>
    /\ sync'[k].state /= "awaiting"

\* C8: when a fetchMoreMessages call returns a non-empty page, the cursor of the chat
\* (its oldest stored message) has afterwards a smaller timestamp than the cursor
\* the call sent, so the next call sends another cursor.
C8_CursorDecreases ==
    [][\A k \in SyncKeys :
          AnswersPage(k) =>
             \A o \in getOldestMessageDetails(messages', k[1], k[2]) :
                /\ o.timestamp < sync[k].key.timestamp
                /\ o.message_id /= sync[k].key.id]_vars

-----------------------------------------------------------------------------
(* Session teardown (createOnLogout), process crash and restart (restoreSessions), *)
(* and the reconciliation pass (runCleanupWorker)                                *)

\* The session object routes/session.js and restoreSessions build.
NewSession == [isAuthenticated |-> FALSE, latestQR |-> NULL]

\* The message session s receives in the teardown runs, and a reaction to it.
OwnMessage(s) ==
    RawMessage(IF s = "s1" THEN "A1" ELSE "A2", "C1", FALSE, {"conversation"}, 1, "Ann", NoMedia)

OwnReaction(s) ==
    [id |-> OwnMessage(s).id, remoteJid |-> "C1", senderJid |-> "r1", text |-> "+1"]

\* deleteSessionData: DELETE FROM messages WHERE session_id = ?;
\*                    DELETE FROM chats WHERE session_id = ?   (one transaction)
deleteSessionData(st, id) ==
    [st EXCEPT !.messages = {r \in @ : r.session_id /= id},
               !.chats = {c \in @ : c.session_id /= id}]

\* Drop key id from the sessions Map.
MapDelete(f, id) == [k \in DOMAIN f \ {id} |-> f[k]]

\* fs.rmSync(path, { recursive: true, force }): without force a missing path raises ENOENT.
rmSync(dirs, id, force) == [dirs |-> dirs \ {id}, threw |-> ~force /\ id \notin dirs]

removeSessionDirUnguarded(dirs, id) == rmSync(dirs, id, FALSE)

\* if (fs.existsSync(sessionPath)) fs.rmSync(sessionPath, { recursive: true, force: true })
removeSessionDir(dirs, id) ==
    IF id \in dirs THEN rmSync(dirs, id, TRUE) ELSE [dirs |-> dirs, threw |-> FALSE]

\* createOnLogout(id)() run to its end: remove the credential directory, delete the
\* session's rows, drop the in-memory entry.
createOnLogout(st, id) ==
    LET rm == removeSessionDir(st.credDirs, id)
        st1 == [st EXCEPT !.credDirs = rm.dirs]
        st2 == deleteSessionData(st1, id)
    IN  IF rm.threw THEN st ELSE [st2 EXCEPT !.sessions = MapDelete(@, id)]

\* Whether createOnLogout(id)() ends with an exception: only the directory removal can
\* raise one, the database error is caught and logged.
createOnLogoutThrows(st, id) == removeSessionDir(st.credDirs, id).threw

RECURSIVE logoutAll(_, _)
logoutAll(st, ids) ==
    IF ids = {} THEN st
    ELSE LET id == CHOOSE x \in ids : TRUE
         IN  logoutAll(createOnLogout(st, id), ids \ {id})

\* cleanupInMemorySessions: tear down every in-memory session that is not authenticated.
cleanupInMemorySessions(st) ==
    logoutAll(st, {id \in DOMAIN st.sessions : ~st.sessions[id].isAuthenticated})

RECURSIVE deleteOrphans(_, _)
deleteOrphans(st, ids) ==
    IF ids = {} THEN st
    ELSE LET id == CHOOSE x \in ids : TRUE
             st1 == deleteSessionData(st, id)
         IN  deleteOrphans([st1 EXCEPT !.credDirs = @ \ {id}], ids \ {id})

\* cleanupOrphanSessions: for every directory of SESSIONS_DIR without an in-memory
\* session, delete the session's rows and then the directory.
cleanupOrphanSessions(st) ==
    deleteOrphans(st, {id \in st.credDirs : id \notin DOMAIN st.sessions})

Store == [sessions |-> sessions, credDirs |-> credDirs, messages |-> messages, chats |-> chats]

Up == proc.state = "up"

\* POST /session/create: a new session object; createWhatsappSession opens its
\* credential directory. Session ids are fresh: nothing of that id exists.
CreateSession(s) ==
    /\ Up /\ ev = NoEvent
    /\ s \notin DOMAIN sessions /\ s \notin credDirs /\ s /= proc.sid
    /\ \A x \in ingested : x[1] /= s
    /\ sessions' = (s :> NewSession) @@ sessions
    /\ credDirs' = credDirs \cup {s}
    /\ last' = [op |-> "create", sid |-> s]
    /\ UNCHANGED <<loopVars, storeVars, emitted, ev, steps, ingested, mediaVars, proc, xportVars>>

\* 'connection.update' with connection === 'open'. A session whose teardown has begun
\* is logged out at the provider and does not open again.
ConnectionOpen(s) ==
    /\ Up /\ ev = NoEvent
    /\ s \in DOMAIN sessions /\ ~sessions[s].isAuthenticated /\ s /= proc.sid
    /\ sessions' = [sessions EXCEPT ![s].isAuthenticated = TRUE]
    /\ last' = [op |-> "connection.update", sid |-> s]
    /\ UNCHANGED <<loopVars, storeVars, emitted, ev, steps, ingested, mediaVars, credDirs, proc, xportVars>>

Connected(s) == Up /\ s \in DOMAIN sessions /\ sessions[s].isAuthenticated

\* createOnLogout(id)() is called: by POST /session/logout, or by a close with the
\* loggedOut cause.
LogoutBegin(s) ==
    /\ Up /\ ev = NoEvent
    /\ s \in DOMAIN sessions
    /\ proc' = [state |-> "teardown", sid |-> s, pc |-> "rm"]
    /\ last' = [op |-> "onLogout", sid |-> s]
    /\ UNCHANGED <<loopVars, storeVars, emitted, ev, steps, ingested, mediaVars, sessions, credDirs, xportVars>>

\* if (fs.existsSync(sessionPath)) fs.rmSync(sessionPath, ...)
OnLogoutRemoveDir ==
    /\ proc.state = "teardown" /\ proc.pc = "rm"
    /\ credDirs' = credDirs \ {proc.sid}
    /\ proc' = [proc EXCEPT !.pc = "delete"]
    /\ UNCHANGED <<loopVars, storeVars, emitted, ev, last, steps, ingested, mediaVars, sessions, xportVars>>

\* try { deleteSessionData(id) } catch ...
OnLogoutDeleteData ==
    /\ proc.state = "teardown" /\ proc.pc = "delete"
    /\ LET st == deleteSessionData(Store, proc.sid)
       IN  messages' = st.messages /\ chats' = st.chats
    /\ proc' = [proc EXCEPT !.pc = "forget"]
    /\ UNCHANGED <<loopVars, reactions, emitted, ev, last, steps, ingested, mediaVars, sessions, credDirs, xportVars>>

\* sessions.delete(id): the teardown is complete.
OnLogoutForget ==
    /\ proc.state = "teardown" /\ proc.pc = "forget"
    /\ sessions' = MapDelete(sessions, proc.sid)
    /\ proc' = [proc EXCEPT !.state = "up", !.pc = "done"]
    /\ UNCHANGED <<loopVars, storeVars, emitted, ev, last, steps, ingested, mediaVars, credDirs, xportVars>>

\* The process dies inside a teardown: memory is lost, disk and database stay.
Crash ==
    /\ proc.state = "teardown"
    /\ proc' = [proc EXCEPT !.state = "down"]
    /\ sessions' = <<>>
    /\ ev' = NoEvent
    /\ sync' = <<>>
    /\ pending' = {}
    /\ socks' = <<>>
    /\ outbox' = [outbox EXCEPT !.queues = <<>>]
    /\ last' = [op |-> "crash", sid |-> proc.sid]
    /\ UNCHANGED <<storeVars, emitted, steps, ingested, mediaVars, credDirs, history>>

\* Process start: restoreSessions() builds one session per credential directory.
Restart ==
    /\ proc.state = "down"
    /\ sessions' = [id \in credDirs |-> NewSession]
    /\ proc' = [proc EXCEPT !.state = "up"]
    /\ last' = [op |-> "restoreSessions", sid |-> NULL]
    /\ UNCHANGED <<loopVars, storeVars, emitted, ev, steps, ingested, mediaVars, credDirs, xportVars>>

CrashPoints == {"rm", "delete", "forget"}

\* runCleanupWorker: cleanupInMemorySessions, then cleanupOrphanSessions.
runCleanupWorker ==
    /\ Up /\ ev = NoEvent
    /\ LET st == cleanupOrphanSessions(cleanupInMemorySessions(Store))
       IN  /\ sessions' = st.sessions
           /\ credDirs' = st.credDirs
           /\ messages' = st.messages
           /\ chats' = st.chats
    /\ proc' = IF proc.pc \in CrashPoints THEN [proc EXCEPT !.pc = "reconciled"] ELSE proc
    /\ last' = [op |-> "runCleanupWorker", sid |-> NULL]
    /\ UNCHANGED <<loopVars, reactions, emitted, ev, steps, ingested, mediaVars, xportVars>>

NextTeardown ==
    \/ \E s \in SessionIds : CreateSession(s)
    \/ \E s \in SessionIds : ConnectionOpen(s)
    \/ Idle /\ \E s \in SessionIds : Connected(s) /\ EmitMessagesUpsert(s, <<OwnMessage(s)>>)
    \/ Up /\ OnMessagesUpsert
    \/ ev = NoEvent /\ \E s \in SessionIds :
          Connected(s) /\ EmitMessagesReaction(s, <<OwnReaction(s)>>)
    \/ Up /\ OnMessagesReaction
    \/ \E s \in SessionIds : LogoutBegin(s)
    \/ OnLogoutRemoveDir
    \/ OnLogoutDeleteData
    \/ OnLogoutForget
    \/ Crash
    \/ Restart
    \/ runCleanupWorker

SpecTeardown == Init /\ [][NextTeardown]_vars

-----------------------------------------------------------------------------
(* Claims about teardown and reconciliation *)

\* The message ids session s has handed to the pipeline.
MessageIdsOf(s) == {x[2] : x \in {y \in ingested : y[1] = s}}

\* No credential directory, no Message row and no Chat row of session s.
NoDirNoRows(s, dirs, msgTbl, chatTbl) ==
    /\ s \notin dirs
    /\ {r \in msgTbl : r.session_id = s} = {}
    /\ {c \in chatTbl : c.session_id = s} = {}

\* C9: when createOnLogout has run to its end for a session, the session has no
\* credential directory and no in-memory entry, and the Message Store holds no
\* Message row, no Chat row and no Reaction row (a reaction to one of its messages) of it.
C9_TeardownClean ==
    [][(proc.state = "teardown" /\ proc'.state = "up") =>
          /\ NoDirNoRows(proc.sid, credDirs', messages', chats')
          /\ proc.sid \notin DOMAIN sessions'
          /\ {x \in reactions' : x.message_id \in MessageIdsOf(proc.sid)} = {}]_vars

\* C10: after a crash inside the teardown of a session, a restart and one
\* reconciliation pass, the session has no credential directory and none of the rows
\* an uninterrupted teardown deletes.
C10_CrashAtomicity ==
    [][(Up /\ proc.pc \in CrashPoints /\ proc'.pc = "reconciled") =>
          NoDirNoRows(proc.sid, credDirs', messages', chats')]_vars

-----------------------------------------------------------------------------
(* The batch transaction of processMessages, with a write that may fail *)

\* A transaction that keeps the writes made before the failing one.
runInTransactionNoRollback(st, stmts, failAt) ==
    LET RECURSIVE run(_, _)
        run(cur, i) ==
            IF i > Len(stmts) THEN [cur EXCEPT !.ok = TRUE]
            ELSE IF i = failAt THEN [cur EXCEPT !.ok = FALSE]
            ELSE IF stmts[i].stmt = "insertMessage"
                 THEN run([cur EXCEPT !.messages = insertMessage(@, stmts[i].params)], i + 1)
                 ELSE run([cur EXCEPT !.chats = upsertChat(@, stmts[i].params)], i + 1)
    IN  run([messages |-> st.messages, chats |-> st.chats, ok |-> TRUE], 1)

\* The statements the transaction callback runs: every insert, then every upsert.
batchStatements(inserts, params) ==
    [i \in 1..Len(inserts) |-> [stmt |-> "insertMessage", params |-> inserts[i]]]
    \o [i \in 1..Len(params) |-> [stmt |-> "upsertChat", params |-> params[i]]]

\* runInTransaction(fn) = db.transaction(fn)(): run the statements in order; when the
\* one numbered failAt throws (0: none does), roll back to the tables as they were.
runInTransaction(st, stmts, failAt) ==
    LET RECURSIVE run(_, _)
        run(cur, i) ==
            IF i > Len(stmts) THEN [cur EXCEPT !.ok = TRUE]
            ELSE IF i = failAt THEN [cur EXCEPT !.ok = FALSE]
            ELSE IF stmts[i].stmt = "insertMessage"
                 THEN run([cur EXCEPT !.messages = insertMessage(@, stmts[i].params)], i + 1)
                 ELSE run([cur EXCEPT !.chats = upsertChat(@, stmts[i].params)], i + 1)
        r == run([messages |-> st.messages, chats |-> st.chats, ok |-> TRUE], 1)
    IN  IF r.ok THEN r ELSE [messages |-> st.messages, chats |-> st.chats, ok |-> FALSE]

\* processMessages when statement failAt of its transaction throws: the exception
\* leaves the function before io.emit and before the return.
processMessagesTx(s, msgs, isHistorical, msgTbl, chatTbl, failAt) ==
    LET inserts == messageInserts(s, msgs)
        params == IF isHistorical THEN <<>>
                  ELSE MapValues(chatUpsertParams(inserts, <<>>))
        r == runInTransaction([messages |-> msgTbl, chats |-> chatTbl],
                              batchStatements(inserts, params), failAt)
    IN  IF inserts = <<>>
        THEN [messages |-> msgTbl, chats |-> chatTbl, emitted |-> <<>>,
              ret |-> Len(msgs), failed |-> FALSE]
        ELSE [messages |-> r.messages, chats |-> r.chats,
              emitted |-> IF isHistorical \/ ~r.ok THEN <<>> ELSE <<messagePayload(s, inserts)>>,
              ret |-> IF r.ok THEN Len(msgs) ELSE 0 - 1,
              failed |-> ~r.ok]

\* How many statements the transaction of a batch runs.
StatementCount(s, msgs, isHistorical) ==
    LET inserts == messageInserts(s, msgs)
    IN  Len(inserts) + (IF isHistorical THEN 0
                        ELSE Len(MapValues(chatUpsertParams(inserts, <<>>))))

\* The 'messages.upsert' handler, with the store failing at statement failAt (0: never).
OnMessagesUpsertTx(failAt) ==
    /\ ev.op = "messages.upsert"
    /\ LET r == processMessagesTx(ev.sid, ev.msgs, FALSE, messages, chats, failAt)
       IN  /\ messages' = r.messages
           /\ chats' = r.chats
           /\ emitted' = r.emitted
           /\ last' = [op |-> "messages.upsert", sid |-> ev.sid, ret |-> r.ret,
                       failed |-> r.failed, failAt |-> failAt]
    /\ ingested' = ingested \cup Handed(ev.sid, ev.msgs, "live")
    /\ ev' = NoEvent
    /\ steps' = steps + 1
    /\ UNCHANGED <<loopVars, reactions, mediaVars, sessVars, xportVars>>

\* The 'messaging-history.set' handler, with the store failing inside processMessages.
OnMessagingHistorySetTx(failAt) ==
    /\ ev.op = "messaging-history.set"
    /\ LET chats1 == upsertAll(chats, historyChatParams(ev.sid, ev.chats))
           r == processMessagesTx(ev.sid, ev.msgs, TRUE, messages, chats1, failAt)
       IN  /\ messages' = r.messages
           /\ chats' = r.chats
           /\ emitted' = r.emitted
           /\ last' = [op |-> "messaging-history.set", sid |-> ev.sid, ret |-> r.ret,
                       failed |-> r.failed, failAt |-> failAt]
    /\ ingested' = ingested \cup Handed(ev.sid, ev.msgs, "hist")
    /\ ev' = NoEvent
    /\ steps' = steps + 1
    /\ UNCHANGED <<loopVars, reactions, mediaVars, sessVars, xportVars>>

\* The batches of the transaction runs: text messages and a message without content.
TxPool ==
    {RawMessage(id, "C1", FALSE, {"conversation"}, 1, "Ann", NoMedia) : id \in MsgIds}
    \cup {RawMessage("A1", "C1", FALSE, NoMessage, 1, NULL, NoMedia)}

NextTx ==
    \/ Idle /\ \E msgs \in BatchesOf(TxPool) : EmitMessagesUpsert("s1", msgs)
    \/ Idle /\ \E msgs \in BatchesOf(TxPool) :
                  EmitHistorySet("s1", <<[id |-> "C1", name |-> NULL, unreadCount |-> 1]>>, msgs)
    \/ ev.op = "messages.upsert"
          /\ \E k \in 0..StatementCount(ev.sid, ev.msgs, FALSE) : OnMessagesUpsertTx(k)
    \/ ev.op = "messaging-history.set"
          /\ \E k \in 0..StatementCount(ev.sid, ev.msgs, TRUE) : OnMessagingHistorySetTx(k)

SpecTx == Init /\ [][NextTx]_vars

-----------------------------------------------------------------------------
(* Session supervisor: the 'connection.update' handler of createWhatsappSession,   *)
(* its reconnect timer, POST /session/logout and the cleanup worker.               *)

\* Status codes a close can carry in lastDisconnect: DisconnectReason values, a code
\* that is none of them, and NULL when lastDisconnect has no error.
CloseCauses == {"loggedOut", "badSession", "connectionReplaced", "connectionLost", "unknown", NULL}

\* The 'connection.update' payloads: a QR string, an open, or a close with its cause.
ConnectionUpdates ==
    {[connection |-> NULL, qr |-> TRUE, cause |-> NULL],
     [connection |-> "open", qr |-> FALSE, cause |-> NULL]}
    \cup {[connection |-> "close", qr |-> FALSE, cause |-> c] : c \in CloseCauses}

\* What the event loop holds for session s: the setTimeout of the close handler,
\* and the qr.toDataURL promise the handler awaits.
ReconnectTimer(s) == [kind |-> "reconnect", sid |-> s]
QrEncoding(s) == [kind |-> "qr", sid |-> s]

SockState(s) == IF s \in DOMAIN socks THEN socks[s] ELSE "none"

ShouldReconnectUnlessAbsent(code) == code \notin {"loggedOut", NULL}

\* A faulty test that retries after every close.
ShouldReconnectAlways(code) == TRUE

\* code !== DisconnectReason.loggedOut
ShouldReconnect(code) == code /= "loggedOut"

\* A field of the session object is assigned; the object may have left the Map.
SetField(f, s, field, v) ==
    IF s \in DOMAIN f THEN [f EXCEPT ![s] = [@ EXCEPT ![field] = v]] ELSE f

\* new PQueue({ concurrency: 1, interval: 1000, intervalCap: 2 })
intervalCap == 2
EmptyQueue == [waiting |-> <<>>, running |-> <<>>, budget |-> intervalCap]

\* The queues operations of session s were added to: the last one is
\* session.messageQueue, the ones before it were replaced while they held operations.
QueuesOf(ob, s) == IF s \in DOMAIN ob.queues THEN ob.queues[s] ELSE <<>>

\* session.messageQueue = new PQueue(...): the session object now refers to a new
\* queue; a replaced queue lives on as long as it holds operations.
newMessageQueue(ob, s) ==
    LET Busy(q) == q.waiting /= <<>> \/ q.running /= <<>>
    IN  [ob EXCEPT !.queues = (s :> Append(SelectSeq(QueuesOf(ob, s), Busy), EmptyQueue)) @@ @]

\* POST /session/create: a fresh uuid, sessions.set(id, session), and
\* createWhatsappSession(session, createOnLogout(id)).
PostSessionCreate(s) ==
    /\ Up /\ ev = NoEvent
    /\ s \notin DOMAIN socks /\ s \notin DOMAIN sessions /\ s \notin credDirs
    /\ sessions' = (s :> NewSession) @@ sessions
    /\ credDirs' = credDirs \cup {s}
    /\ socks' = (s :> "connecting") @@ socks
    /\ outbox' = newMessageQueue(outbox, s)
    /\ last' = [op |-> "create", sid |-> s]
    /\ UNCHANGED <<storeVars, emitted, ev, steps, ingested, mediaVars, proc, xportVars, pending>>

\* The transport emits 'connection.update' on the socket of session s: QR strings and
\* the open while connecting, a close while connecting or open, and after a logout
\* only the close with the loggedOut cause.
EmitConnectionUpdate(s, u) ==
    /\ Up /\ ev = NoEvent
    /\ \/ SockState(s) = "connecting"
       \/ SockState(s) = "open" /\ u.connection = "close"
       \/ SockState(s) = "loggingOut" /\ u.connection = "close" /\ u.cause = "loggedOut"
    /\ socks' = [socks EXCEPT ![s] = CASE u.connection = "open" -> "open"
                                       [] u.connection = "close" ->
                                            IF @ = "loggingOut" THEN "loggedOut" ELSE "closed"
                                       [] OTHER -> @]
    /\ ev' = [op |-> "connection.update", sid |-> s, connection |-> u.connection,
              qr |-> u.qr, cause |-> u.cause]
    /\ UNCHANGED <<storeVars, emitted, last, steps, ingested, mediaVars, sessVars, xportVars, pending, outbox>>

\* sock.ev.on('connection.update', async ({ connection, qr: qrCode, lastDisconnect }) => ...)
OnConnectionUpdate ==
    /\ Up /\ ev.op = "connection.update"
    /\ LET s == ev.sid
           closed == ev.connection = "close"
           st == IF closed /\ ~ShouldReconnect(ev.cause)
                 THEN createOnLogout([Store EXCEPT !.sessions = SetField(@, s, "isAuthenticated", FALSE)], s)
                 ELSE [Store EXCEPT !.sessions =
                          CASE ev.connection = "open" -> SetField(@, s, "isAuthenticated", TRUE)
                            [] closed -> SetField(@, s, "isAuthenticated", FALSE)
                            [] OTHER -> @]
       IN  /\ sessions' = st.sessions
           /\ credDirs' = st.credDirs
           /\ messages' = st.messages
           /\ chats' = st.chats
           /\ pending' = pending
                  \cup (IF ev.qr THEN {QrEncoding(s)} ELSE {})
                  \cup (IF closed /\ ShouldReconnect(ev.cause) THEN {ReconnectTimer(s)} ELSE {})
           /\ last' = [op |-> "connection.update", sid |-> s,
                       connection |-> ev.connection, cause |-> ev.cause,
                       threw |-> closed /\ ~ShouldReconnect(ev.cause)
                                    /\ createOnLogoutThrows(Store, s)]
    /\ ev' = NoEvent
    /\ UNCHANGED <<reactions, emitted, steps, ingested, mediaVars, proc, xportVars, socks, outbox>>

\* qr.toDataURL resolves: session.latestQR = <data url>.
QrEncoded(s) ==
    /\ Up /\ ev = NoEvent
    /\ QrEncoding(s) \in pending
    /\ pending' = pending \ {QrEncoding(s)}
    /\ sessions' = SetField(sessions, s, "latestQR", "qr")
    /\ last' = [op |-> "qr.toDataURL", sid |-> s]
    /\ UNCHANGED <<storeVars, emitted, ev, steps, ingested, mediaVars, credDirs, proc, xportVars, socks, outbox>>

\* The 3000 ms timer of the close handler fires: createWhatsappSession(session, onLogout).
\* useMultiFileAuthState(authPath) creates the credential directory, makeWASocket the
\* socket, and the session gets a new messageQueue.
ReconnectFires(s) ==
    /\ Up /\ ev = NoEvent
    /\ ReconnectTimer(s) \in pending
    /\ pending' = pending \ {ReconnectTimer(s)}
    /\ credDirs' = credDirs \cup {s}
    /\ socks' = [socks EXCEPT ![s] = "connecting"]
    /\ outbox' = newMessageQueue(outbox, s)
    /\ last' = [op |-> "createWhatsappSession", sid |-> s]
    /\ UNCHANGED <<storeVars, emitted, ev, steps, ingested, mediaVars, sessions, proc, xportVars>>

\* A client sends POST /session/logout with the token s; ok: whether sock.logout()
\* will resolve.
EmitPostLogout(s, ok) ==
    /\ Up /\ ev = NoEvent
    /\ s \in DOMAIN sessions
    /\ ev' = [op |-> "POST /logout", sid |-> s, ok |-> ok]
    /\ UNCHANGED <<loopVars, storeVars, emitted, last, steps, ingested, mediaVars, sessVars, xportVars>>

\* auth, then: try { await req.session.sock?.logout(); createOnLogout(req.session.id)() }
\* catch (e) { res.status(500) }
OnPostLogout ==
    /\ Up /\ ev.op = "POST /logout"
    /\ LET s == ev.sid
           authorized == s \in DOMAIN sessions /\ sessions[s].isAuthenticated
           st == IF authorized /\ ev.ok THEN createOnLogout(Store, s) ELSE Store
       IN  /\ sessions' = st.sessions
           /\ credDirs' = st.credDirs
           /\ messages' = st.messages
           /\ chats' = st.chats
           /\ socks' = IF authorized /\ ev.ok /\ SockState(s) = "open"
                       THEN [socks EXCEPT ![s] = "loggingOut"] ELSE socks
           /\ last' = [op |-> "POST /logout", sid |-> s,
                       status |-> IF ~authorized THEN 401
                                  ELSE IF ev.ok /\ ~createOnLogoutThrows(Store, s) THEN 200
                                  ELSE 500]
    /\ ev' = NoEvent
    /\ UNCHANGED <<reactions, emitted, steps, ingested, mediaVars, proc, xportVars, pending, outbox>>

NextSession ==
    \/ \E s \in SessionIds : PostSessionCreate(s)
    \/ \E s \in SessionIds, u \in ConnectionUpdates : EmitConnectionUpdate(s, u)
    \/ OnConnectionUpdate
    \/ \E s \in SessionIds : QrEncoded(s)
    \/ \E s \in SessionIds : ReconnectFires(s)
    \/ \E s \in SessionIds, ok \in BOOLEAN : EmitPostLogout(s, ok)
    \/ OnPostLogout
    \/ Idle /\ \E s \in SessionIds :
          Connected(s) /\ SockState(s) = "open" /\ EmitMessagesUpsert(s, <<OwnMessage(s)>>)
    \/ Up /\ OnMessagesUpsert
    \/ runCleanupWorker

SpecSession == Init /\ [][NextSession]_vars

-----------------------------------------------------------------------------
(* Claims about the session supervisor *)

\* The close causes after which the session must end: explicit logout, credential
\* invalidation, session superseded elsewhere.
UnrecoverableCauses == {"loggedOut", "badSession", "connectionReplaced"}

\* The event being handled is a close of session s.
HandlesClose(s) ==
    Handles("connection.update") /\ ev.sid = s /\ ev.connection = "close"

\* The last thing that ran is the handler of a close of s with a recoverable cause,
\* and the retry it scheduled has not run yet.
AwaitingRetry(s) ==
    /\ last.op = "connection.update" /\ last.sid = s
    /\ last.connection = "close" /\ last.cause \notin UnrecoverableCauses
    /\ ReconnectTimer(s) \in pending

SessionRows(tbl, s) == {r \in tbl : r.session_id = s}

\* C12: a close with a recoverable cause schedules a retry and destroys nothing of
\* the session, and while the retry is pending no step of any component removes the
\* session's in-memory entry, its credential directory or one of its message rows.
C12_RecoverableCloseKeepsState ==
    [][\A s \in SessionIds :
          /\ (HandlesClose(s) /\ ev.cause \notin UnrecoverableCauses)
                => /\ ReconnectTimer(s) \in pending'
                   /\ credDirs' = credDirs
                   /\ DOMAIN sessions' = DOMAIN sessions
                   /\ messages' = messages
          /\ (AwaitingRetry(s) /\ s \in DOMAIN sessions /\ s \in credDirs)
                => /\ s \in DOMAIN sessions'
                   /\ s \in credDirs'
                   /\ SessionRows(messages, s) \subseteq messages']_vars

\* Nothing of session s is left: no in-memory entry, no credential directory, no
\* message or chat row.
TornDown(st, s) ==
    /\ s \notin DOMAIN st.sessions
    /\ s \notin st.credDirs
    /\ SessionRows(st.messages, s) = {}
    /\ SessionRows(st.chats, s) = {}

\* C13: when the handler of a close with an unrecoverable cause has run, the session
\* is torn down and no reconnect is scheduled.
C13_UnrecoverableCloseTerminates ==
    [][\A s \in SessionIds :
          (HandlesClose(s) /\ ev.cause \in UnrecoverableCauses)
             => /\ TornDown(Store', s)
                /\ ReconnectTimer(s) \notin pending']_vars

\* C14: for every close cause outside the unrecoverable set, an absent and an unknown
\* one included, the close handler schedules a reconnect and tears nothing down.
C14_FailOpen ==
    [][\A s \in SessionIds :
          (HandlesClose(s) /\ ev.cause \notin UnrecoverableCauses)
             => /\ ReconnectTimer(s) \in pending'
                /\ DOMAIN sessions' = DOMAIN sessions
                /\ credDirs' = credDirs
                /\ messages' = messages /\ chats' = chats]_vars

C14_Witness ==
    /\ last.op = "connection.update" /\ last.connection = "close"
    /\ last.cause \in {NULL, "unknown"}
    /\ last.sid \in DOMAIN sessions /\ last.sid \in credDirs
    /\ SessionRows(messages, last.sid) /= {}
    /\ ReconnectTimer(last.sid) \in pending

\* C15: when the handler of a logout request for a connected session has run, the
\* session is torn down, whether or not the transport's logout call succeeded.
C15_LogoutAlwaysTerminates ==
    [][\A s \in SessionIds :
          (Handles("POST /logout") /\ ev.sid = s /\ Connected(s))
             => TornDown(Store', s)]_vars

\* The close being handled makes the handler call onLogout for session s.
HandlesLoggedOut(s) == HandlesClose(s) /\ ~ShouldReconnect(ev.cause)

\* C16: from every reachable state, running the teardown of a session a second time
\* raises no error and gives the state the first run gave; and when the close handler
\* calls the teardown of a session that is already torn down, nothing changes and
\* nothing is raised.
C16_TeardownIdempotent ==
    /\ [](\A s \in SessionIds :
             LET once == createOnLogout(Store, s)
             IN  /\ ~createOnLogoutThrows(Store, s)
                 /\ ~createOnLogoutThrows(once, s)
                 /\ createOnLogout(once, s) = once)
    /\ [][\A s \in SessionIds :
             (HandlesLoggedOut(s) /\ SockState(s) = "loggedOut")
                => /\ Store' = Store
                   /\ ~last'.threw]_vars

\* The route has torn the session down, and the handler of the transport's
\* logged-out close has then run the teardown again.
C16_Witness ==
    /\ last.op = "connection.update" /\ last.connection = "close"
    /\ last.cause = "loggedOut" /\ ~last.threw
    /\ SockState(last.sid) = "loggedOut"
    /\ TornDown(Store, last.sid)
    /\ \E x \in ingested : x[1] = last.sid

\* Session s existed and its in-memory entry has been removed by a teardown.
Terminated(s) == s \in DOMAIN socks /\ s \notin DOMAIN sessions

\* C17: no step constructs a session (createWhatsappSession making a new socket) for
\* a session id that has been terminated.
C17_NoReconnectAfterTermination ==
    [][\A s \in SessionIds :
          Terminated(s) => ~(socks[s] /= "connecting" /\ socks'[s] = "connecting")]_vars

\* C18: an authenticated session has no pairing artifact: latestQR is null whenever
\* isAuthenticated is true.
C18_AuthenticatedHasNoQr ==
    \A s \in DOMAIN sessions : sessions[s].isAuthenticated => sessions[s].latestQR = NULL

\* C19: when the handler of an open of session s has run, a history sync is started
\* for every known chat of s.
C19_OpenStartsBackfill ==
    [][\A s \in SessionIds :
          (Handles("connection.update") /\ ev.sid = s /\ ev.connection = "open"
              /\ s \in DOMAIN sessions)
             => \A j \in getChats(chats', s) : <<s, j>> \in DOMAIN sync']_vars

-----------------------------------------------------------------------------
(* Outbound queue: POST /send, /send/media and /send/reaction hand their call of   *)
(* sock.sendMessage to session.messageQueue and await the promise add returns.     *)

MaxOps == 3

OpKinds == {"text", "media", "reaction"}

concurrency == 1

\* Every queue of every session but queue g of session s.
OtherQueues(ob, s, g) ==
    {<<t, h>> \in SessionIds \X (1..MaxOps) :
        /\ h \in 1..Len(QueuesOf(ob, t))
        /\ <<t, h>> /= <<s, g>>}

pendingCountShared(ob, s, g, q) ==
    Len(q.running) + Cardinality({k \in OtherQueues(ob, s, g) : ob.queues[k[1]][k[2]].running /= <<>>})

\* The operations a PQueue counts against its concurrency are the ones it runs itself:
\* q is the queue object of one construction of one session.
pendingCount(ob, s, g, q) == Len(q.running)

\* PQueue starts the next operation when fewer than `concurrency` run and the
\* interval still has budget; starting it is the call of sock.sendMessage.
CanStart(ob, s, g, q) ==
    pendingCount(ob, s, g, q) < concurrency /\ q.waiting /= <<>> /\ q.budget > 0

tryToStartAnother(ob, s, g, q) ==
    IF CanStart(ob, s, g, q)
    THEN [q EXCEPT !.running = <<Head(q.waiting)>>, !.waiting = Tail(@), !.budget = @ - 1]
    ELSE q

\* The operation a step of queue q handed to the transport, if any.
StartedBy(ob, s, g, q) == IF CanStart(ob, s, g, q) THEN <<Head(q.waiting)>> ELSE <<>>

\* Queue number g of session s takes the value q, and the transport is handed what
\* the step started.
WithQueue(ob, s, g, q) ==
    [ob EXCEPT !.queues[s][g] = tryToStartAnother(ob, s, g, q),
               !.sent = @ \o [i \in 1..Len(StartedBy(ob, s, g, q)) |->
                                 [sid |-> s, id |-> StartedBy(ob, s, g, q)[i].id]]]

\* The correlation token the client puts into request number n.
TempId(n) == "t" \o ToString(n)

\* What the route answers once the promise of its add has settled with `result`:
\* POST /send and POST /send/media answer { success, messageId, tempId } or, from the
\* catch, status 500 with { error, tempId }; POST /send/reaction answers
\* { success: true } or status 500 with { error } and reads no tempId.
routeResponse(op, result) ==
    [of |-> result.of,
     status |-> IF result.ok THEN 200 ELSE 500,
     tempId |-> IF op.kind = "reaction" THEN NULL ELSE op.tempId]

\* A send route of an authenticated session: messageQueue.add(() => sock.sendMessage(...)).
\* Requests are numbered in the order they arrive.
PostSend(s, kind) ==
    /\ Up /\ ev = NoEvent
    /\ Connected(s) /\ QueuesOf(outbox, s) /= <<>>
    /\ outbox.next <= MaxOps
    /\ LET g == Len(outbox.queues[s])
           q == outbox.queues[s][g]
           op == [id |-> outbox.next, kind |-> kind, tempId |-> TempId(outbox.next)]
       IN  outbox' = [WithQueue(outbox, s, g, [q EXCEPT !.waiting = Append(@, op)])
                         EXCEPT !.next = @ + 1]
    /\ last' = [op |-> "send", sid |-> s, kind |-> kind]
    /\ UNCHANGED <<storeVars, emitted, ev, steps, ingested, mediaVars, sessVars, xportVars, pending, socks>>

\* sock.sendMessage of the running operation settles: with the message the transport
\* assigned to it, or with an error. The promise of its add settles with the same,
\* and the queue starts the next operation.
SendSettles(s, g, ok) ==
    /\ Up /\ ev = NoEvent
    /\ g \in 1..Len(QueuesOf(outbox, s))
    /\ outbox.queues[s][g].running /= <<>>
    /\ LET q == outbox.queues[s][g]
           op == q.running[1]
           result == [of |-> op.id, ok |-> ok]
       IN  outbox' = [WithQueue(outbox, s, g, [q EXCEPT !.running = <<>>])
                         EXCEPT !.replies = (op.id :> routeResponse(op, result)) @@ @]
    /\ last' = [op |-> "sendMessage", sid |-> s, ok |-> ok]
    /\ UNCHANGED <<storeVars, emitted, ev, steps, ingested, mediaVars, sessVars, xportVars, pending, socks>>

\* The 1000 ms interval of a queue elapses: its budget is intervalCap again.
IntervalElapses(s, g) ==
    /\ Up /\ ev = NoEvent
    /\ g \in 1..Len(QueuesOf(outbox, s))
    /\ outbox.queues[s][g].budget < intervalCap
    /\ outbox' = WithQueue(outbox, s, g, [outbox.queues[s][g] EXCEPT !.budget = intervalCap])
    /\ last' = [op |-> "interval", sid |-> s]
    /\ UNCHANGED <<storeVars, emitted, ev, steps, ingested, mediaVars, sessVars, xportVars, pending, socks>>

\* The connection of the sending session: it opens, is lost, and comes back.
QueueUpdates ==
    {[connection |-> "open", qr |-> FALSE, cause |-> NULL],
     [connection |-> "close", qr |-> FALSE, cause |-> "connectionLost"]}

NextQueue ==
    \/ PostSessionCreate("s1")
    \/ \E u \in QueueUpdates : EmitConnectionUpdate("s1", u)
    \/ OnConnectionUpdate
    \/ ReconnectFires("s1")
    \/ \E kind \in OpKinds : PostSend("s1", kind)
    \/ \E g \in 1..MaxOps, ok \in BOOLEAN : SendSettles("s1", g, ok)
    \/ \E g \in 1..MaxOps : IntervalElapses("s1", g)

SpecQueue == Init /\ [][NextQueue]_vars

SentBy(s) == SelectSeq(outbox.sent, LAMBDA x : x.sid = s)

\* C20: the transport is handed the operations of a session in the order the session's
\* requests arrived, whatever their kinds, and every caller gets the result of its own
\* operation.
C20_QueueFifo ==
    /\ \A s \in SessionIds :
          \A i, j \in 1..Len(SentBy(s)) : i < j => SentBy(s)[i].id < SentBy(s)[j].id
    /\ \A id \in DOMAIN outbox.replies : outbox.replies[id].of = id

\* The running operation of queue g of session s settles in this step.
Settles(s, g) ==
    /\ g \in 1..Len(QueuesOf(outbox, s))
    /\ outbox.queues[s][g].running /= <<>>
    /\ outbox'.queues[s] /= outbox.queues[s]
    /\ outbox.queues[s][g].running[1].id \in DOMAIN outbox'.replies \ DOMAIN outbox.replies

\* C21: the answer to a failed operation goes to the request that made it and carries
\* that request's correlation token; the answers given before stay as they are; and
\* the queue goes on: when an operation settles, with a failure or not, the next
\* waiting operation of that queue is handed to the transport, in the order of arrival.
C21_FailureIsPerRequest ==
    /\ [](\A id \in DOMAIN outbox.replies :
             outbox.replies[id].status = 500
                => outbox.replies[id].of = id /\ outbox.replies[id].tempId = TempId(id))
    /\ [][\A s \in SessionIds, g \in 1..MaxOps :
             Settles(s, g) =>
                LET q == outbox.queues[s][g]
                    id == q.running[1].id
                IN  /\ \A x \in DOMAIN outbox.replies : outbox'.replies[x] = outbox.replies[x]
                    /\ (q.waiting /= <<>> /\ q.budget > 0)
                          => /\ outbox'.queues[s][g].running = <<Head(q.waiting)>>
                             /\ outbox'.sent = Append(outbox.sent, [sid |-> s, id |-> Head(q.waiting).id])]_vars

-----------------------------------------------------------------------------
(* Outbound queues of two sessions. The transport of s1 may leave an operation     *)
(* unsettled for ever; the transport of s2 settles what it is handed, and the      *)
(* interval timers of the queues of s2 fire.                                       *)

OpenUpdate == [connection |-> "open", qr |-> FALSE, cause |-> NULL]

NextQueues ==
    \/ \E s \in SessionIds : PostSessionCreate(s)
    \/ \E s \in SessionIds : EmitConnectionUpdate(s, OpenUpdate)
    \/ OnConnectionUpdate
    \/ \E s \in SessionIds : PostSend(s, "text")
    \/ \E s \in SessionIds, g \in 1..MaxOps, ok \in BOOLEAN : SendSettles(s, g, ok)
    \/ \E s \in SessionIds, g \in 1..MaxOps : IntervalElapses(s, g)

SpecQueues ==
    /\ Init /\ [][NextQueues]_vars
    /\ WF_vars(OnConnectionUpdate)
    /\ WF_vars(\E g \in 1..MaxOps, ok \in BOOLEAN : SendSettles("s2", g, ok))
    /\ WF_vars(\E g \in 1..MaxOps : IntervalElapses("s2", g))

\* Request n was added to a queue of session s and has not been handed to the transport.
WaitsIn(s, n) ==
    \E g \in 1..Len(QueuesOf(outbox, s)) :
        \E i \in 1..Len(outbox.queues[s][g].waiting) : outbox.queues[s][g].waiting[i].id = n

WasSent(s, n) == \E i \in 1..Len(outbox.sent) : outbox.sent[i] = [sid |-> s, id |-> n]

\* An operation of session s is running and has not settled.
Stuck(s) ==
    \E g \in 1..Len(QueuesOf(outbox, s)) : outbox.queues[s][g].running /= <<>>

\* C22: whatever the operations of s1 do, an operation of s2 is handed to the transport
\* at once when the queue of s2 runs nothing and has budget, and every operation
\* waiting in the queue of s2 is handed to the transport eventually.
C22_OtherSessionsNotBlocked ==
    /\ [][(Stuck("s1") /\ last'.op = "send" /\ last'.sid = "s2" /\ outbox'.next = outbox.next + 1
              /\ ~Stuck("s2") /\ outbox.queues["s2"][Len(outbox.queues["s2"])].budget > 0)
            => \E i \in 1..Len(outbox'.sent) :
                   outbox'.sent[i] = [sid |-> "s2", id |-> outbox.next]]_vars
    /\ \A n \in 1..MaxOps : [](WaitsIn("s2", n) => <>WasSent("s2", n))

\* An operation of s1 is still running, and an operation of s2 that was handed over
\* after it has been answered.
C22_Witness ==
    /\ Stuck("s1")
    /\ \E i, j \in 1..Len(outbox.sent) :
          /\ i < j
          /\ outbox.sent[i].sid = "s1" /\ outbox.sent[j].sid = "s2"
          /\ outbox.sent[i].id \notin DOMAIN outbox.replies
          /\ outbox.sent[j].id \in DOMAIN outbox.replies

-----------------------------------------------------------------------------
(* Claims about chat rows and notifications of the ingestion pipeline *)

HasRow(tbl, s, id) == \E r \in tbl : r.session_id = s /\ r.message_id = id

\* Indices of the incoming messages of a batch for chat j that session s has a row
\* for in tbl.
StoredIncoming(msgs, s, j, tbl) ==
    {i \in Incoming(msgs, j) : HasRow(tbl, s, msgs[i].id)}

\* C23: a live batch adds to the unread counter of each chat the number of incoming
\* messages of that chat in the batch that are persisted for the session, whatever
\* the order of their timestamps; a historical batch changes no unread counter.
C23_UnreadCountsIncoming ==
    [][/\ Handles("messages.upsert")
             => \A j \in Jids :
                   Unread(chats', ev.sid, j) =
                      Unread(chats, ev.sid, j)
                         + Cardinality(StoredIncoming(ev.msgs, ev.sid, j, messages'))
       /\ (Handles("messaging-history.set") /\ ev.chats = <<>>)
             => \A s \in SessionIds, j \in Jids : Unread(chats', s, j) = Unread(chats, s, j)]_vars

-----------------------------------------------------------------------------
(* Chat rows: every event that reaches the chats table or could reach it. Live and *)
(* historical batches, history-set chat lists, receipts, reactions, and the read   *)
(* action GET /history/:jid.                                                        *)

\* Messages of chat C1: a named and an unnamed sender, an older and a newer message,
\* an outgoing one, and one without content.
ChatPool ==
    {RawMessage("A1", "C1", FALSE, {"conversation"}, 2, "Ann", NoMedia),
     RawMessage("A2", "C1", FALSE, {"conversation"}, 1, NULL, NoMedia),
     RawMessage("A2", "C1", FALSE, {"conversation"}, 2, NULL, NoMedia),
     RawMessage("A2", "C1", TRUE, {"conversation"}, 2, NULL, NoMedia),
     RawMessage("A1", "C1", FALSE, NoMessage, 1, NULL, NoMedia)}

\* Chat lists of a messaging-history.set event: with or without a name, with or
\* without unread messages at the provider.
ChatLists ==
    {<<[id |-> "C1", name |-> n, unreadCount |-> u]>> : n \in {NULL, "Bob"}, u \in {0, 1}}

ChatHistorySets ==
    {[chats |-> cl, msgs |-> <<>>] : cl \in ChatLists}
    \cup {[chats |-> <<>>, msgs |-> b] : b \in BatchesOf(ChatPool)}

\* UPDATE messages SET status = @status WHERE message_id = @id
updateMessageStatus(tbl, id, status) ==
    {IF r.message_id = id THEN [r EXCEPT !.status = status] ELSE r : r \in tbl}

\* { 4: 'delivered', 5: 'read' }[update?.status]
ReceiptStatus(code) ==
    CASE code = 4 -> "delivered" [] code = 5 -> "read" [] OTHER -> NULL

\* One receipt of a 'messages.update' event.
Receipts == {[id |-> "A2", fromMe |-> f, status |-> c] : f \in BOOLEAN, c \in {3, 4, 5}}

EmitMessagesUpdate(s, u) ==
    /\ ev' = [op |-> "messages.update", sid |-> s, updates |-> <<u>>]
    /\ UNCHANGED <<loopVars, storeVars, emitted, last, steps, ingested, mediaVars, sessVars, xportVars>>

RECURSIVE applyReceipts(_, _)
applyReceipts(tbl, updates) ==
    IF updates = <<>> THEN tbl
    ELSE LET u == Head(updates)
             status == ReceiptStatus(u.status)
         IN  applyReceipts(IF u.fromMe /\ status /= NULL
                           THEN updateMessageStatus(tbl, u.id, status) ELSE tbl,
                           Tail(updates))

\* sock.ev.on('messages.update', updates => ...)
OnMessagesUpdate ==
    /\ ev.op = "messages.update"
    /\ messages' = applyReceipts(messages, ev.updates)
    /\ emitted' = LET told == SelectSeq(ev.updates,
                                 LAMBDA u : u.fromMe /\ ReceiptStatus(u.status) /= NULL)
                  IN  [i \in 1..Len(told) |->
                          [event |-> "whatsapp-message-status-update", to |-> ev.sid,
                           id |-> told[i].id, status |-> ReceiptStatus(told[i].status)]]
    /\ last' = [op |-> "messages.update", sid |-> ev.sid]
    /\ ev' = NoEvent
    /\ steps' = steps + 1
    /\ UNCHANGED <<loopVars, chats, reactions, ingested, mediaVars, sessVars, xportVars>>

\* GET /history/:jid: resetChatUnreadCount.run({ session_id, jid }), then the rows
\* are read.
GetHistory(s, j) ==
    /\ ev = NoEvent
    /\ chats' = resetChatUnreadCount(chats, s, j)
    /\ last' = [op |-> "GET /history", sid |-> s, jid |-> j]
    /\ UNCHANGED <<loopVars, messages, reactions, emitted, ev, steps, ingested, mediaVars, sessVars, xportVars>>

NextChat ==
    \/ Idle /\ \E msgs \in BatchesOf(ChatPool) : EmitMessagesUpsert("s1", msgs)
    \/ Idle /\ \E h \in ChatHistorySets : EmitHistorySet("s1", h.chats, h.msgs)
    \/ Idle /\ \E u \in Receipts : EmitMessagesUpdate("s1", u)
    \/ Idle /\ EmitMessagesReaction("s1", <<OwnReaction("s1")>>)
    \/ OnMessagesUpsert
    \/ OnMessagingHistorySet
    \/ OnMessagesUpdate
    \/ OnMessagesReaction
    \/ GetHistory("s1", "C1")

SpecChat == Init /\ [][NextChat]_vars

\* GET /history/:jid of chat j of session s ran in this step.
Reads(s, j) ==
    /\ ev = NoEvent /\ ev' = NoEvent
    /\ last' = [op |-> "GET /history", sid |-> s, jid |-> j]
    /\ messages' = messages

\* C24: the unread counter of an existing chat changes only by growing when a live
\* batch with incoming messages of that chat is ingested, or by becoming zero when the
\* chat's history is read.
C24_UnreadFrame ==
    [][\A s \in SessionIds, j \in Jids :
          (ChatRow(chats, s, j) /= {} /\ Unread(chats', s, j) /= Unread(chats, s, j))
             => \/ /\ Handles("messages.upsert") /\ ev.sid = s
                   /\ Incoming(ev.msgs, j) /= {}
                   /\ Unread(chats', s, j) > Unread(chats, s, j)
                \/ Reads(s, j) /\ Unread(chats', s, j) = 0]_vars

NameOf(tbl, s, j) == (CHOOSE c \in ChatRow(tbl, s, j) : TRUE).name

\* The queued live batch has messages for chat j, none of them with a sender name.
IsUnnamedBatch(j) ==
    /\ PersistedFor(ev.msgs, j) /= {}
    /\ \A i \in PersistedFor(ev.msgs, j) : ev.msgs[i].pushName = NULL

\* C25: ingesting messages whose sender supplies no name leaves the stored name of a
\* chat that has one as it is.
C25_NameNotBlanked ==
    [][\A j \in Jids :
          (Handles("messages.upsert") /\ IsUnnamedBatch(j)
              /\ ChatRow(chats, ev.sid, j) /= {} /\ NameOf(chats, ev.sid, j) /= NULL)
             => NameOf(chats', ev.sid, j) = NameOf(chats, ev.sid, j)]_vars

LastOf(tbl, s, j) ==
    LET c == CHOOSE x \in ChatRow(tbl, s, j) : TRUE
    IN  [last_message |-> c.last_message, last_message_timestamp |-> c.last_message_timestamp]

\* C26: the handler of a messaging-history.set event, whether it carries a chat list
\* or a page of messages, leaves the name of every existing chat as it is and does not
\* blank or take back its last_message and last_message_timestamp.
C26_HistorySyncKeepsChat ==
    [][\A s \in SessionIds, j \in Jids :
          (Handles("messaging-history.set") /\ ChatRow(chats, s, j) /= {})
             => /\ ChatRow(chats', s, j) /= {}
                /\ NameOf(chats', s, j) = NameOf(chats, s, j)
                /\ LastOf(chats, s, j).last_message /= NULL
                      => LastOf(chats', s, j).last_message /= NULL
                /\ LastOf(chats', s, j).last_message_timestamp
                      >= LastOf(chats, s, j).last_message_timestamp]_vars

\* The ids, in batch order, of the messages of a batch that pass the filter and that
\* session s has a row for in tbl.
RECURSIVE PersistedIds(_, _, _)
PersistedIds(msgs, s, tbl) ==
    IF msgs = <<>> THEN <<>>
    ELSE IF Persistable(Head(msgs)) /\ HasRow(tbl, s, Head(msgs).id)
         THEN <<Head(msgs).id>> \o PersistedIds(Tail(msgs), s, tbl)
         ELSE PersistedIds(Tail(msgs), s, tbl)

HasPersistable(msgs) == \E i \in 1..Len(msgs) : Persistable(msgs[i])

\* C27: a live batch with a persistable message publishes exactly one notification
\* batch, on the topic of its session, with one payload per message the session has
\* persisted when the handler is done; a historical batch publishes nothing.
C27_OneNotificationBatch ==
    [][/\ (Handles("messages.upsert") /\ HasPersistable(ev.msgs))
             => /\ Len(emitted') = 1
                /\ emitted'[1].event = "whatsapp-message"
                /\ emitted'[1].to = ev.sid
                /\ emitted'[1].ids = PersistedIds(ev.msgs, ev.sid, messages')
       /\ Handles("messaging-history.set") => emitted' = <<>>]_vars

-----------------------------------------------------------------------------
(* Claims about the notifications of a batch of reactions *)

\* The batch has an event about message id m that names its sender.
Affected(evs, m) == \E i \in 1..Len(evs) : evs[i].id = m /\ evs[i].senderJid /= NULL

\* The notifications about message id m among those just published.
UpdatesFor(em, m) == {i \in DOMAIN em : em[i].id = m}

\* Every notification is a reaction-update on topic s carrying the aggregated map of
\* its message as tbl has it.
CarryMapsOf(em, s, tbl) ==
    \A i \in DOMAIN em :
       /\ em[i].event = "whatsapp-reaction-update"
       /\ em[i].to = s
       /\ em[i].reactions = reactionCounts(tbl, em[i].id)

\* C28: the reaction handler publishes exactly one reaction-update for every distinct
\* message id its batch affects and none for any other, each carrying the aggregated
\* map of its message as it stands after the whole batch is applied.
C28_OneUpdatePerAffected ==
    [][Handles("messages.reaction") =>
          /\ reactions' = applyReactions(reactions, ev.reactions)
          /\ CarryMapsOf(emitted', ev.sid, reactions')
          /\ \A m \in MsgIds :
                Cardinality(UpdatesFor(emitted', m))
                   = IF Affected(ev.reactions, m) THEN 1 ELSE 0]_vars

\* C28 as the handler has it: one reaction-update for every distinct affected message
\* id that has a row in the Message Store, none for an id without one (its reaction
\* rows are written all the same), each carrying the map after the whole batch.
C28_OneUpdatePerStoredAffected ==
    [][Handles("messages.reaction") =>
          /\ reactions' = applyReactions(reactions, ev.reactions)
          /\ CarryMapsOf(emitted', ev.sid, reactions')
          /\ \A m \in MsgIds :
                Cardinality(UpdatesFor(emitted', m))
                   = IF Affected(ev.reactions, m) /\ \E r \in messages : r.message_id = m
                     THEN 1 ELSE 0]_vars

\* C28 witness: one batch has removed the reactions of both reactors to the stored
\* message A1, and the handler has published a single update for A1, with the empty
\* map the message has after both removals.
C28_Witness ==
    /\ last.op = "messages.reaction"
    /\ last.deleted = {<<"A1", r>> : r \in Reactors}
    /\ \E r \in messages : r.message_id = "A1"
    /\ Len(emitted) = 1
    /\ emitted[1].id = "A1"
    /\ DOMAIN emitted[1].reactions = {}

-----------------------------------------------------------------------------
(* Message kinds: batches that also carry content of a kind getType does not know *)

\* Messages whose content is of none of the kinds of TypePrecedence (a protocol
\* message, say): getType finds no type for them.
OtherKindRaw ==
    {RawMessage(id, jid, FALSE, {"protocol"}, 1, NULL, NoMedia) : id \in MsgIds, jid \in Jids}

KindPool == RawPool \cup OtherKindRaw

NextKinds ==
    \/ Idle /\ \E s \in SessionIds, msgs \in BatchesOf(KindPool) : EmitMessagesUpsert(s, msgs)
    \/ Idle /\ \E s \in SessionIds, msgs \in BatchesOf(KindPool) : EmitHistorySet(s, <<>>, msgs)
    \/ OnMessagesUpsert
    \/ OnMessagingHistorySet

SpecKinds == Init /\ [][NextKinds]_vars

\* The kinds a message can be stored as.
RecognizedKinds == {TypePrecedence[i] : i \in 1..Len(TypePrecedence)} \ {"reaction"}

\* The message is one the pipeline is to skip: no content, a kind that is not
\* recognized, or a reaction.
ToSkip(m) == m.message = NoMessage \/ getType(m.message) \notin RecognizedKinds

HandlesBatch == Handles("messages.upsert") \/ Handles("messaging-history.set")

\* C29: when a batch is processed, live or historical, a message without content, of
\* an unrecognized kind or of reaction kind leaves no Message row (no row with its id
\* appears unless another message of the batch brings it), a chat whose messages in
\* the batch are all of that sort keeps its row as it was, and every other message of
\* the batch whose id is not stored yet is persisted for the session.
C29_SkippedLeaveNoTrace ==
    [][HandlesBatch =>
          /\ \A i \in 1..Len(ev.msgs) :
                (/\ ToSkip(ev.msgs[i])
                 /\ \A k \in 1..Len(ev.msgs) : ev.msgs[k].id = ev.msgs[i].id => ToSkip(ev.msgs[k])
                 /\ ~\E r \in messages : r.message_id = ev.msgs[i].id)
                   => ~\E r \in messages' : r.message_id = ev.msgs[i].id
          /\ \A j \in Jids :
                (\A i \in 1..Len(ev.msgs) : ev.msgs[i].remoteJid = j => ToSkip(ev.msgs[i]))
                   => ChatRow(chats', ev.sid, j) = ChatRow(chats, ev.sid, j)
          /\ \A i \in 1..Len(ev.msgs) :
                (~ToSkip(ev.msgs[i]) /\ ~\E r \in messages : r.message_id = ev.msgs[i].id)
                   => HasRow(messages', ev.sid, ev.msgs[i].id)]_vars

-----------------------------------------------------------------------------
(* Claims about fetchMoreMessages without a cursor *)

\* The session has no stored message of the chat.
NoStoredMessage(s, j) == ~\E r \in messages : r.session_id = s /\ r.jid = j

\* fetchMoreMessages(s, j) is called in this step: the loop of the chat was about to
\* call it and has moved.
FetchCalled(s, j) ==
    /\ <<s, j>> \in DOMAIN sync
    /\ sync[<<s, j>>].state = "running"
    /\ sync'[<<s, j>>] /= sync[<<s, j>>]

\* C30: fetchMoreMessages for a chat the session has no stored message of returns 0,
\* puts no request to the transport and leaves the Message Store as it is.
C30_NoCursorNoFetch ==
    [][\A s \in SessionIds, j \in Jids :
          (FetchCalled(s, j) /\ NoStoredMessage(s, j))
             => /\ last' = [op |-> "fetchMoreMessages", sid |-> s, jid |-> j, ret |-> 0]
                /\ sync'[<<s, j>>].state = "done"
                /\ sync'[<<s, j>>].key = NoKey
                /\ \A k \in DOMAIN sync' : sync'[k].state = "awaiting" => sync[k].state = "awaiting"
                /\ UNCHANGED <<messages, chats, reactions, emitted>>]_vars

\* C30 witness: a fetchMoreMessages call has returned 0 for a chat that is in the
\* session's chat list and that the session has no stored message of.
C30_Witness ==
    /\ last.op = "fetchMoreMessages"
    /\ last.ret = 0
    /\ NoStoredMessage(last.sid, last.jid)
    /\ last.jid \in getChats(chats, last.sid)
    /\ sync[<<last.sid, last.jid>>].state = "done"

-----------------------------------------------------------------------------
(* Full history sync: the PQueue of runFullHistorySync, one per invocation *)

syncConcurrency == 5      \* new PQueue({ concurrency: 5 })

\* The chats of the account, in the order getChats returns them.
SyncJids == <<"C1", "C2", "C3", "C4", "C5", "C6">>

\* The initial history the provider delivers: every chat and its newest message.
SyncChatList == [i \in 1..Len(SyncJids) |-> [id |-> SyncJids[i], name |-> NULL, unreadCount |-> 0]]
SyncMessages ==
    [i \in 1..Len(SyncJids) |->
        RawMessage("M" \o ToString(i), SyncJids[i], FALSE, {"conversation"}, 1, "Ann", NoMedia)]

\* The tasks of the run-th invocation for session s, as keys of sync.
TasksOf(f, s, run) == {k \in DOMAIN f : k[1] = s /\ k[3] = run}

\* queue.add for every chat of getChats: PQueue starts a task at once while fewer than
\* `concurrency` of its own tasks run, and queues it otherwise.
addAll(s, run, jids) ==
    [k \in {<<s, jids[i], run>> : i \in 1..Len(jids)} |->
        LET i == CHOOSE n \in 1..Len(jids) : jids[n] = k[2]
        IN  [state |-> IF i <= syncConcurrency THEN "running" ELSE "queued",
             key |-> NoKey, page |-> <<>>]]

\* The chats of session s in the order of SyncJids.
chatsInOrder(tbl, s) == SelectSeq(SyncJids, LAMBDA j : j \in getChats(tbl, s))

\* The 'messaging-history.set' handler goes on after `await processMessages(...)`:
\* runFullHistorySync(session) builds a queue of its own and adds a task per chat.
FullHistorySyncStarts(s) ==
    /\ ev = NoEvent
    /\ last.op = "messaging-history.set" /\ last.sid = s
    /\ sync' = addAll(s, steps, chatsInOrder(chats, s)) @@ sync
    /\ last' = [op |-> "runFullHistorySync", sid |-> s]
    /\ UNCHANGED <<loopVars, storeVars, emitted, ev, steps, ingested, mediaVars, sessVars, history>>

\* The first queued task of a run, in the order the tasks were added.
NextQueued(f, s, run) ==
    LET idx == {i \in 1..Len(SyncJids) :
                   /\ <<s, SyncJids[i], run>> \in DOMAIN f
                   /\ f[<<s, SyncJids[i], run>>].state = "queued"}
    IN  IF idx = {} THEN {}
        ELSE {<<s, SyncJids[CHOOSE i \in idx : \A n \in idx : i <= n], run>>}

\* The fetch loop of a task ends (fetchMoreMessages has returned 0 for its chat), and
\* the queue of the task's run starts the next task it holds.
ChatSyncEnds(k) ==
    /\ k \in DOMAIN sync
    /\ sync[k].state = "running"
    /\ LET nxt == NextQueued(sync, k[1], k[3])
       IN  sync' = [x \in DOMAIN sync |->
                       IF x = k THEN [sync[x] EXCEPT !.state = "done"]
                       ELSE IF x \in nxt THEN [sync[x] EXCEPT !.state = "running"]
                       ELSE sync[x]]
    /\ last' = [op |-> "fetchMoreMessages", sid |-> k[1], jid |-> k[2], ret |-> 0]
    /\ UNCHANGED <<loopVars, storeVars, emitted, ev, steps, ingested, mediaVars, sessVars, history>>

NextSync ==
    \/ Idle /\ last.op /= "messaging-history.set"
            /\ EmitHistorySet("s1", SyncChatList, SyncMessages)
    \/ OnMessagingHistorySet
    \/ FullHistorySyncStarts("s1")
    \/ \E k \in DOMAIN sync : ChatSyncEnds(k)

SpecSync == Init /\ [][NextSync]_vars

\* The chats of session s some task is fetching.
BeingFetched(s) == {k[2] : k \in {x \in DOMAIN sync : x[1] = s /\ sync[x].state = "running"}}

\* C31: at no moment are more than 5 chats of a session being fetched, also when a
\* second full sync starts while an earlier one is running.
C31_BoundedSyncConcurrency ==
    \A s \in SessionIds : Cardinality(BeingFetched(s)) <= syncConcurrency

-----------------------------------------------------------------------------
(* The cleanup worker pass by pass (workers/CleanupWorker.js), beside the session *)
(* supervisor and the handlers of the sockets it leaves behind                    *)

\* session.lastActivity: no code of the repository assigns the field.
lastActivity(session) == NULL

\* The test of cleanupInMemorySessions; stale: what the comparison of now with
\* lastActivity would give if the field were there.
shouldCleanup(session, stale) ==
    \/ ~session.isAuthenticated
    \/ lastActivity(session) /= NULL /\ stale

\* The worker's own continuation: cleanupOrphanSessions awaiting fs.readdir.
OrphanScan == [kind |-> "orphans", sid |-> NULL]

\* Pass (a), cleanupInMemorySessions, of a run of the worker; idle: the authenticated
\* sessions that have had no activity for longer than STALE_SESSION_THRESHOLD_MS.
CleanupInMemory(idle) ==
    /\ Up /\ ev = NoEvent
    /\ OrphanScan \notin pending
    /\ LET st == logoutAll(Store, {id \in DOMAIN sessions : shouldCleanup(sessions[id], id \in idle)})
       IN  /\ sessions' = st.sessions
           /\ credDirs' = st.credDirs
           /\ messages' = st.messages
           /\ chats' = st.chats
    /\ pending' = pending \cup {OrphanScan}
    /\ last' = [op |-> "cleanupInMemorySessions", sid |-> NULL, idle |-> idle]
    /\ UNCHANGED <<reactions, emitted, ev, steps, ingested, mediaVars, proc, xportVars, socks, outbox>>

\* One callback of the Promise.allSettled of cleanupOrphanSessions:
\* await deleteSessionData(id); await fs.rm(orphanPath, ...); either may fail.
cleanupOrphan(st, id, dbFails, rmFails) ==
    IF dbFails THEN st
    ELSE LET st1 == deleteSessionData(st, id)
         IN  IF rmFails THEN st1 ELSE [st1 EXCEPT !.credDirs = @ \ {id}]

RECURSIVE settleOrphans(_, _, _, _)
settleOrphans(st, ids, failDb, failRm) ==
    IF ids = {} THEN st
    ELSE LET id == CHOOSE x \in ids : TRUE
         IN  settleOrphans(cleanupOrphan(st, id, id \in failDb, id \in failRm),
                           ids \ {id}, failDb, failRm)

\* A faulty filter that takes every directory for an orphan.
everyDir(st) == st.credDirs

\* dirents.filter(dirent => dirent.isDirectory() && !sessions.has(dirent.name))
orphanDirs(st) == {id \in st.credDirs : id \notin DOMAIN st.sessions}

\* Pass (b), cleanupOrphanSessions, once fs.readdir has resolved; failDb, failRm: the
\* orphans whose deleteSessionData, whose fs.rm fails.
CleanupOrphans(failDb, failRm) ==
    /\ Up /\ ev = NoEvent
    /\ OrphanScan \in pending
    /\ failDb \cup failRm \subseteq orphanDirs(Store)
    /\ LET st == settleOrphans(Store, orphanDirs(Store), failDb, failRm)
       IN  /\ sessions' = st.sessions
           /\ credDirs' = st.credDirs
           /\ messages' = st.messages
           /\ chats' = st.chats
    /\ pending' = pending \ {OrphanScan}
    /\ last' = [op |-> "cleanupOrphanSessions", sid |-> NULL,
                orphans |-> orphanDirs(Store), failed |-> failDb \cup failRm,
                hadRows |-> {id \in orphanDirs(Store) : \E r \in messages : r.session_id = id}]
    /\ UNCHANGED <<reactions, emitted, ev, steps, ingested, mediaVars, proc, xportVars, socks, outbox>>

\* The connection updates of the cleanup runs: an open, a close for a lost connection.
WorkerUpdates ==
    {u \in ConnectionUpdates : u.connection = "open" \/ u.cause = "connectionLost"}

\* The handlers of a socket run whether the Map still holds its session object or not.
NextCleanup ==
    \/ \E s \in SessionIds : PostSessionCreate(s)
    \/ \E s \in SessionIds, u \in WorkerUpdates : EmitConnectionUpdate(s, u)
    \/ OnConnectionUpdate
    \/ \E s \in SessionIds : ReconnectFires(s)
    \/ Idle /\ \E s \in SessionIds :
          Up /\ SockState(s) = "open" /\ EmitMessagesUpsert(s, <<OwnMessage(s)>>)
    \/ Up /\ OnMessagesUpsert
    \/ ev = NoEvent /\ \E s \in SessionIds :
          Up /\ SockState(s) = "open" /\ EmitMessagesReaction(s, <<OwnReaction(s)>>)
    \/ Up /\ OnMessagesReaction
    \/ \E idle \in SUBSET {s \in DOMAIN sessions : sessions[s].isAuthenticated} :
          CleanupInMemory(idle)
    \/ \E failDb \in SUBSET SessionIds, failRm \in SUBSET SessionIds :
          CleanupOrphans(failDb, failRm)

SpecCleanup == Init /\ [][NextCleanup]_vars

\* Pass (a) of the worker runs in this step.
PassARuns == OrphanScan \notin pending /\ OrphanScan \in pending'

\* Session s keeps its in-memory entry, its directory and its rows in this step.
Untouched(s) ==
    /\ s \in DOMAIN sessions' /\ sessions'[s] = sessions[s]
    /\ (s \in credDirs') = (s \in credDirs)
    /\ SessionRows(messages', s) = SessionRows(messages, s)
    /\ SessionRows(chats', s) = SessionRows(chats, s)

\* C32: when pass (a) is done, every in-memory session that was not authenticated or
\* was idle beyond the threshold has lost its entry, its directory and its rows, and
\* every authenticated session that was not idle is as it was.
C32_PassATerminatesStale ==
    [][PassARuns =>
          \A s \in DOMAIN sessions :
             IF ~sessions[s].isAuthenticated \/ s \in last'.idle
             THEN /\ s \notin DOMAIN sessions'
                  /\ NoDirNoRows(s, credDirs', messages', chats')
             ELSE Untouched(s)]_vars

\* Pass (b) of the worker runs in this step.
PassBRuns == OrphanScan \in pending /\ OrphanScan \notin pending'

-----------------------------------------------------------------------------
(* Retention cleanup (workers/cleanup.js) *)

DayMs == 24 * 60 * 60 * 1000

\* CLEANUP_DAYS as configured, and the clock readings that put the cutoff between the
\* timestamps of the stored messages.
CleanupDays == {0 - 1, 0, 1}
Clocks == {DayMs + ToMillis(t) + 500 : t \in 1..MaxTs}

\* DELETE FROM messages WHERE timestamp < @cutoffTimestamp
deleteOldMessages(msgTbl, cutoffTimestamp) == {r \in msgTbl : ~(r.timestamp < cutoffTimestamp)}

\* DELETE FROM reactions WHERE NOT EXISTS (SELECT 1 FROM messages
\*   WHERE messages.message_id = reactions.message_id)
deleteOldReactions(reactTbl, msgTbl) ==
    {x \in reactTbl : \E r \in msgTbl : r.message_id = x.message_id}

\* The transaction of autoCleanup: deleteOldReactions.run, then deleteOldMessages.run.
cleanupDb(st, cutoffTimestamp) ==
    LET reactTbl == deleteOldReactions(st.reactions, st.messages)
    IN  [messages |-> deleteOldMessages(st.messages, cutoffTimestamp), reactions |-> reactTbl]

\* autoCleanup() of a run of the worker script at clock reading now.
autoCleanup(days, now) ==
    /\ ev = NoEvent
    /\ LET cutoffTimestamp == now - (days * DayMs)
           st == IF days <= 0 THEN [messages |-> messages, reactions |-> reactions]
                 ELSE cleanupDb([messages |-> messages, reactions |-> reactions], cutoffTimestamp)
       IN  /\ messages' = st.messages
           /\ reactions' = st.reactions
           /\ last' = [op |-> "autoCleanup", sid |-> NULL, days |-> days,
                       cutoff |-> cutoffTimestamp]
    /\ UNCHANGED <<loopVars, chats, emitted, ev, steps, ingested, mediaVars, sessVars, xportVars>>

\* The reaction events of the retention runs: r1 reacts to a message with +1.
RetentionReactions == {e \in ReactionEvents : e.senderJid = "r1" /\ e.text = "+1"}

NextRetention ==
    \/ Idle /\ \E m \in TextRaw(PushNames) : EmitMessagesUpsert("s1", <<m>>)
    \/ OnMessagesUpsert
    \/ ev = NoEvent /\ \E e \in RetentionReactions : EmitMessagesReaction("s1", <<e>>)
    \/ OnMessagesReaction
    \/ \E days \in CleanupDays, now \in Clocks : autoCleanup(days, now)

SpecRetention == Init /\ [][NextRetention]_vars

\* The retention cleanup runs in this step.
CleanupRuns == ev = NoEvent /\ ev' = NoEvent /\ last'.op = "autoCleanup"

\* C34: a run of the retention cleanup with a window of zero or less deletes nothing;
\* with a positive window it leaves no Message row older than the cutoff and no
\* Reaction row without a Message row of its message id, and it keeps every Message
\* row that is not older than the cutoff and every Reaction row of such a message.
C34_RetentionCleanup ==
    [][CleanupRuns =>
          IF last'.days <= 0
          THEN messages' = messages /\ reactions' = reactions
          ELSE /\ \A r \in messages' : r.timestamp >= last'.cutoff
               /\ \A x \in reactions' : \E r \in messages' : r.message_id = x.message_id
               /\ \A r \in messages : r.timestamp >= last'.cutoff => r \in messages'
               /\ \A x \in reactions :
                     (\E r \in messages : r.message_id = x.message_id /\ r.timestamp >= last'.cutoff)
                        => x \in reactions']_vars

-----------------------------------------------------------------------------
(* Transport instances: every socket makeWASocket has built for a session, in the  *)
(* order of their construction. In these runs socks[s] is that sequence.           *)

MaxSockets == 3     \* sockets built for one session in one behaviour

\* A socket that is connecting or open emits events to the handlers wired to it.
IsLive(state) == state \in {"connecting", "open"}

SocketsOf(s) == IF s \in DOMAIN socks THEN socks[s] ELSE <<>>

\* makeWASocket(...) inside createWhatsappSession(session, onLogout).
makeWASocket(f, s) == (s :> Append(IF s \in DOMAIN f THEN f[s] ELSE <<>>, "connecting")) @@ f

\* The continuation of POST /import behind `await session.sock?.logout()`.
ImportPending(s) == [kind |-> "import", sid |-> s]

\* POST /session/create: a fresh uuid, sessions.set(id, session), createWhatsappSession.
CreateWithSocket(s) ==
    /\ Up /\ ev = NoEvent
    /\ s \notin DOMAIN socks /\ s \notin DOMAIN sessions /\ s \notin credDirs
    /\ sessions' = (s :> NewSession) @@ sessions
    /\ credDirs' = credDirs \cup {s}
    /\ socks' = makeWASocket(socks, s)
    /\ outbox' = newMessageQueue(outbox, s)
    /\ last' = [op |-> "create", sid |-> s]
    /\ UNCHANGED <<storeVars, emitted, ev, steps, ingested, mediaVars, proc, xportVars, pending>>

\* The updates a socket emits by itself: the open, and a close because the connection
\* was lost or because the account unlinked the device.
SocketUpdates ==
    {u \in ConnectionUpdates : u.connection = "open" \/ u.cause \in {"connectionLost", "loggedOut"}}

\* Socket i of session s emits 'connection.update': an open while connecting, a close
\* while connecting or open. A closed socket emits nothing.
SocketUpdate(s, i, u) ==
    /\ Up /\ ev = NoEvent
    /\ i \in DOMAIN SocketsOf(s)
    /\ \/ socks[s][i] = "connecting"
       \/ socks[s][i] = "open" /\ u.connection = "close"
    /\ socks' = [socks EXCEPT ![s][i] = IF u.connection = "open" THEN "open" ELSE "closed"]
    /\ ev' = [op |-> "connection.update", sid |-> s, connection |-> u.connection,
              qr |-> u.qr, cause |-> u.cause]
    /\ UNCHANGED <<storeVars, emitted, last, steps, ingested, mediaVars, sessVars, xportVars, pending, outbox>>

\* The 3000 ms timer of the close handler fires: createWhatsappSession(session, onLogout).
TimerFires(s) ==
    /\ Up /\ ev = NoEvent
    /\ ReconnectTimer(s) \in pending
    /\ Len(SocketsOf(s)) < MaxSockets
    /\ pending' = pending \ {ReconnectTimer(s)}
    /\ credDirs' = credDirs \cup {s}
    /\ socks' = makeWASocket(socks, s)
    /\ outbox' = newMessageQueue(outbox, s)
    /\ last' = [op |-> "createWhatsappSession", sid |-> s]
    /\ UNCHANGED <<storeVars, emitted, ev, steps, ingested, mediaVars, sessions, proc, xportVars>>

\* POST /session/import up to its first await: auth, then session.sock.logout() on the
\* socket the session object refers to, the last one built. ok: the logout request is
\* answered, and the socket ends with the loggedOut cause; otherwise the call rejects
\* and the route answers 500.
ImportLogout(s, ok) ==
    /\ Up /\ ev = NoEvent
    /\ s \in DOMAIN sessions /\ sessions[s].isAuthenticated
    /\ SocketsOf(s) /= <<>> /\ socks[s][Len(socks[s])] = "open"
    /\ ImportPending(s) \notin pending
    /\ IF ok
       THEN /\ socks' = [socks EXCEPT ![s][Len(socks[s])] = "closed"]
            /\ ev' = [op |-> "connection.update", sid |-> s, connection |-> "close",
                      qr |-> FALSE, cause |-> "loggedOut"]
            /\ pending' = pending \cup {ImportPending(s)}
       ELSE UNCHANGED <<socks, ev, pending>>
    /\ last' = [op |-> "session.sock.logout", sid |-> s, ok |-> ok]
    /\ UNCHANGED <<storeVars, emitted, steps, ingested, mediaVars, sessVars, xportVars, outbox>>

\* POST /session/import after the await: the directory is replaced by the uploaded
\* one, and createWhatsappSession(session, createOnLogout(session.id)) is called.
ImportCreate(s) ==
    /\ Up /\ ev = NoEvent
    /\ ImportPending(s) \in pending
    /\ Len(SocketsOf(s)) < MaxSockets
    /\ pending' = pending \ {ImportPending(s)}
    /\ credDirs' = credDirs \cup {s}
    /\ socks' = makeWASocket(socks, s)
    /\ outbox' = newMessageQueue(outbox, s)
    /\ last' = [op |-> "POST /import", sid |-> s, status |-> 200]
    /\ UNCHANGED <<storeVars, emitted, ev, steps, ingested, mediaVars, sessions, proc, xportVars>>

NextTransport ==
    \/ \E s \in SessionIds : CreateWithSocket(s)
    \/ \E s \in SessionIds, i \in 1..MaxSockets, u \in SocketUpdates : SocketUpdate(s, i, u)
    \/ OnConnectionUpdate
    \/ \E s \in SessionIds : TimerFires(s)
    \/ \E s \in SessionIds, ok \in BOOLEAN : ImportLogout(s, ok)
    \/ \E s \in SessionIds : ImportCreate(s)
    \/ runCleanupWorker

SpecTransport == Init /\ [][NextTransport]_vars

LiveSockets(s) == {i \in DOMAIN SocketsOf(s) : IsLive(socks[s][i])}

-----------------------------------------------------------------------------
(* Two tenants on one store: both sessions receive messages, receipts and reactions *)
(* that carry the same provider message ids, and either may be torn down.           *)

\* The receipts of the provider for both message ids.
TenantReceipts == {[id |-> i, fromMe |-> TRUE, status |-> c] : i \in MsgIds, c \in {4, 5}}

\* onLogout(session.id) run to its end.
OnLogout(s) ==
    /\ ev = NoEvent
    /\ LET st == createOnLogout(Store, s)
       IN  /\ sessions' = st.sessions
           /\ credDirs' = st.credDirs
           /\ messages' = st.messages
           /\ chats' = st.chats
    /\ last' = [op |-> "onLogout", sid |-> s]
    /\ UNCHANGED <<loopVars, reactions, emitted, ev, steps, ingested, mediaVars, proc, xportVars>>

NextTenants ==
    \/ Idle /\ \E s \in SessionIds, m \in TextRaw(PushNames) : EmitMessagesUpsert(s, <<m>>)
    \/ OnMessagesUpsert
    \/ Idle /\ \E s \in SessionIds, u \in TenantReceipts : EmitMessagesUpdate(s, u)
    \/ OnMessagesUpdate
    \/ Idle /\ \E s \in SessionIds, e \in RetentionReactions : EmitMessagesReaction(s, <<e>>)
    \/ OnMessagesReaction
    \/ \E s \in SessionIds : OnLogout(s)

SpecTenants == Init /\ [][NextTenants]_vars

\* An event of session a is handled in this step: a batch, a receipt, a reaction
\* event, or the teardown of a.
EventOf(a) ==
    \/ /\ ev.op \in {"messages.upsert", "messages.update", "messages.reaction"}
       /\ ev.sid = a /\ ev' = NoEvent
    \/ /\ ev = NoEvent /\ ev' = NoEvent
       /\ last'.op = "onLogout" /\ last'.sid = a

\* The reaction rows attached to the messages stored for session b.
ReactionsOn(reactTbl, msgTbl, b) ==
    {r \in reactTbl : \E m \in SessionRows(msgTbl, b) : m.message_id = r.message_id}

\* C36: an event of session a leaves every Message row, Chat row and reaction of a
\* message of any other session b as it was, and a message of a batch of a is not
\* left without a row of a because another session has a row with the same id.
C36_TenantIsolation ==
    [][\A a \in SessionIds : EventOf(a) =>
          /\ \A b \in SessionIds \ {a} :
                /\ SessionRows(messages', b) = SessionRows(messages, b)
                /\ SessionRows(chats', b) = SessionRows(chats, b)
                /\ ReactionsOn(reactions', messages, b) = ReactionsOn(reactions, messages, b)
          /\ ev.op = "messages.upsert" =>
                \A i \in 1..Len(ev.msgs) :
                   ~ /\ RowsOf(messages', a, ev.msgs[i].id) = {}
                     /\ \E b \in SessionIds \ {a} : RowsOf(messages, b, ev.msgs[i].id) /= {}]_vars

-----------------------------------------------------------------------------
(* Claims about a terminated session and the socket it leaves behind *)

\* C37: while a session is terminated, no step adds or changes a Message row or a
\* Chat row stored under its id.
C37_NoWritesAfterTermination ==
    [][\A s \in SessionIds : (Terminated(s) /\ Terminated(s)') =>
          /\ SessionRows(messages', s) \subseteq SessionRows(messages, s)
          /\ SessionRows(chats', s) \subseteq SessionRows(chats, s)]_vars

-----------------------------------------------------------------------------
(* Claims about the delivery status of a stored message *)

\* The order of the delivery statuses of an outgoing message.
StatusRank(status) ==
    CASE status = "sent" -> 1 [] status = "delivered" -> 2 [] status = "read" -> 3
      [] OTHER -> 0

\* C38: when a receipt event is handled, the status of no stored outgoing message
\* moves back in the order sent, delivered, read, and an event whose receipts are all
\* for incoming messages or carry a status code other than delivered and read leaves
\* every Message row as it was.
C38_StatusOnlyAdvances ==
    [][Handles("messages.update") =>
          /\ \A r \in messages : r.isOutgoing = 1 =>
                \E r2 \in messages' :
                   /\ r2.message_id = r.message_id
                   /\ StatusRank(r2.status) >= StatusRank(r.status)
          /\ (\A i \in 1..Len(ev.updates) :
                 ~ev.updates[i].fromMe \/ ev.updates[i].status \notin {4, 5})
                => messages' = messages]_vars

-----------------------------------------------------------------------------
(* Claims about the outbound operations in flight across a reconnection *)

\* The operations of session s that are running against the transport, over every
\* queue built for the session.
InFlight(s) ==
    {<<g, i>> \in (1..Len(QueuesOf(outbox, s))) \X (1..MaxOps) :
        i \in DOMAIN outbox.queues[s][g].running}

\* C39: a session never has two outbound operations in flight, whichever of its
\* queues they were added to.
C39_OneInFlightPerSession ==
    \A s \in SessionIds : Cardinality(InFlight(s)) <= 1

-----------------------------------------------------------------------------
(* Claims about where a media reference resolves *)

\* serveMedia(res, session, fileName): the file MEDIA_DIR/<session.id>/<fileName> is
\* sent when it exists; url is the reference `/media/<fileName>` of a row.
serveMedia(files, s, url) ==
    IF \E b \in files : b.dir = s /\ MediaUrl(b.sha, b.ext) = url THEN 200 ELSE 404

\* C40: every media reference stored on a Message row of a session resolves to a blob
\* in the media directory of that session.
C40_MediaResolvesInOwnDirectory ==
    \A r \in messages :
        r.media_url /= NULL => serveMedia(blobs, r.session_id, r.media_url) = 200

=============================================================================
